---- MODULE Spec2Model ----
(***************************************************************************)
(* A model of the webhook relay: the retry queue manager                   *)
(* (utils/retry_manager.py), the forwarder (utils/webhook_forwarder.py),   *)
(* the webhook handler and the background processing of one inbound event  *)
(* (routes.py, database.py, utils/error_handler.py), and the classifier    *)
(* (utils/webhook_parser.py).                                              *)
(*                                                                         *)
(* The program runs on one asyncio event loop: the code between two awaits *)
(* that really suspend (a network call, a store call, a sleep) runs        *)
(* atomically, so every action below is one such stretch of code.          *)
(***************************************************************************)
EXTENDS Integers, Sequences, FiniteSets, TLC

VARIABLES
    \* ---- RetryManager (utils/retry_manager.py) ----
    retry_queue,      \* the dict, in insertion order: a sequence of entries
    processing_task,  \* None or the id of the drain task last created
    tasks,            \* every drain task: where it is suspended, its locals
    clock,            \* the last value datetime.now().timestamp() returned
    calls,            \* number of add_to_retry calls made so far
    dropped,          \* number of "queue is full" warnings printed
    items,            \* history: one record per entry ever created
    \* ---- Orchestrator, store, backend (routes.py, database.py) ----
    req,              \* each inbound request: its handler and background task
    notification_collection,  \* documents of the notification collection
    logs_collection,          \* documents of the logs collection
    connection_ready, \* Database._connection_ready
    mongo_up,         \* environment: the store answers
    backend_healthy,  \* environment: the backend accepts what it is sent
    ENABLE_FORWARDING,\* Config.ENABLE_FORWARDING, fixed at start
    next_id,          \* the store's next inserted_id
    forward_calls,    \* history: the forward_to_backend calls made
    received,         \* history: requests whose POST the backend accepted
    updates,          \* history: the update_one calls that were applied
    overlapped,       \* history: two background tasks were ever active at once
    store_failed,     \* history: a store call ever failed or was refused
    \* ---- The functions of the classifier and of the forwarder, one call ----
    call,             \* the function called and its arguments
    result            \* how far the call has got, and what it gave

retryVars == <<retry_queue, processing_task, tasks, clock, calls, dropped, items>>
orchVars == <<req, notification_collection, logs_collection, connection_ready,
              mongo_up, backend_healthy, ENABLE_FORWARDING, next_id,
              forward_calls, received, updates, overlapped, store_failed>>
pureVars == <<call, result>>
vars == <<retryVars, orchVars, pureVars>>

None == "None"

----------------------------------------------------------------------------
(* Bounds of the model *)

\* add_to_retry calls the environment makes in the interleaving specification
MaxAdds == 3
\* drain tasks that can exist at once in the model (the code sets no limit)
MaxTasks == 2
\* timestamp collisions the burst of SpecFill may contain
MaxCollisions == 1
\* inbound requests processed
MaxRequests == 2
\* add_to_retry calls made beyond max_queue_size in SpecCapacity
MaxExtraAdds == 2
\* entries the drain task takes off the queue in SpecCapacity
MaxLeft == 2

\* the payloads handed to add_to_retry; request r carries <<"data", r>>
Payloads == {<<"data", 1>>, <<"data", 2>>}

----------------------------------------------------------------------------
(* RetryManager.__init__ *)

max_retries == 3
max_queue_size == 100

TaskIds == 1..MaxTasks

\* processing_task is None
NoneTask == 0

NoTask == [pc |-> "none", data_id |-> 0, uid |-> 0]

----------------------------------------------------------------------------
(* The dict retry_queue as a sequence of entries in insertion order.       *)
(* An entry is [key, uid, data, retry_count]: key is the dict key          *)
(* (the timestamp), uid is the identity of the Python dict object that is  *)
(* the value (the index of its record in items), data and retry_count are  *)
(* its fields.  last_retry_time is written and never read: it is left out. *)

RECURSIVE IndexOfKey(_, _)
IndexOfKey(q, k) ==
    IF q = <<>> THEN 0
    ELSE IF q[Len(q)].key = k THEN Len(q)
    ELSE IndexOfKey(SubSeq(q, 1, Len(q) - 1), k)

HasKey(q, k) == IndexOfKey(q, k) # 0

\* retry_queue[k] = e: a key already present keeps its position
DictSet(q, k, e) ==
    IF HasKey(q, k) THEN [q EXCEPT ![IndexOfKey(q, k)] = e]
    ELSE Append(q, e)

\* del retry_queue[k], the key being present
DictDel(q, k) ==
    LET i == IndexOfKey(q, k)
    IN  SubSeq(q, 1, i - 1) \o SubSeq(q, i + 1, Len(q))

QueueUids(q) == {q[i].uid : i \in 1..Len(q)}

----------------------------------------------------------------------------
(* The backend, as the two clients see it: the result of one POST.         *)

Statuses == {200, 201, 202, 204, 500}
Bodies == {"empty", "json", "text"}

Responses ==
    [kind : {"status"}, status : Statuses, body : Bodies]
    \cup [kind : {"connect_error", "timeout", "error"}, status : {0}, body : {"empty"}]

\* a healthy backend accepts what it is sent and answers 200 with a JSON body;
\* an unhealthy one may answer anything, or not at all
BackendResponses(healthy) ==
    IF healthy THEN {[kind |-> "status", status |-> 200, body |-> "json"]}
    ELSE Responses

\* the backend took the payload: it answered with a success status (spec 6)
Accepted(resp) == resp.kind = "status" /\ resp.status \in {200, 201, 202, 204}

----------------------------------------------------------------------------
(* RetryManager.add_to_retry *)

\* mutant of line 22: > for >=
QueueFull_OffByOne(q) == Len(q) > max_queue_size

\* line 22
QueueFull(q) == Len(q) >= max_queue_size

\* mutants of line 34: a task is started on every call; only the done() half
\* of the test is made
NeedsNewTask_Always(pt, ts) == TRUE

NeedsNewTask_OnlyDone(pt, ts) == pt # NoneTask /\ ts[pt].pc = "done"

NeedsNewTask(pt, ts) == pt = NoneTask \/ ts[pt].pc = "done"

FreeTasks(ts) == {t \in TaskIds : ts[t].pc \in {"none", "done"}}

\* the history record of the entry that add_to_retry replaces, if any
MarkOverwritten(its, q, k) ==
    IF HasKey(q, k)
    THEN [its EXCEPT ![q[IndexOfKey(q, k)].uid].fate =
              IF @ = "queued" THEN "overwritten" ELSE @]
    ELSE its

add_to_retry(data, retry_count, now) ==
    /\ calls' = calls + 1
    /\ IF QueueFull(retry_queue)
       THEN /\ dropped' = dropped + 1
            /\ UNCHANGED <<retry_queue, processing_task, tasks, clock, items>>
       ELSE LET uid == Len(items) + 1
                entry == [key |-> now, uid |-> uid, data |-> data,
                          retry_count |-> retry_count]
            IN  /\ retry_queue' = DictSet(retry_queue, now, entry)
                /\ items' = Append(MarkOverwritten(items, retry_queue, now),
                                   [data |-> data, attempts |-> 0, fate |-> "queued"])
                /\ clock' = now
                /\ dropped' = dropped
                /\ IF NeedsNewTask(processing_task, tasks) /\ FreeTasks(tasks) # {}
                   THEN LET t == CHOOSE x \in FreeTasks(tasks) : TRUE
                        IN  /\ tasks' = [tasks EXCEPT ![t] =
                                           [pc |-> "created", data_id |-> 0, uid |-> 0]]
                            /\ processing_task' = t
                   ELSE UNCHANGED <<processing_task, tasks>>
    /\ UNCHANGED orchVars
    /\ UNCHANGED pureVars

\* datetime.now().timestamp(): the clock never runs backwards, and two
\* readings can be equal
Now == {clock, clock + 1}

----------------------------------------------------------------------------
(* RetryManager.forward_data *)

forward_data(resp) ==
    resp.kind = "status" /\ resp.status \in {200, 201, 202, 204}

----------------------------------------------------------------------------
(* RetryManager.process_retry_queue *)

\* mutant of line 45: <= for <
ShouldRetry_OffByOne(e) == e.retry_count <= max_retries

\* line 45: the entry is attempted
ShouldRetry(e) == e.retry_count < max_retries

\* mutant of line 41: the newest entry is taken
OldestKey_Newest(q) == q[Len(q)].key

\* line 41: next(iter(self.retry_queue))
OldestKey(q) == q[1].key

\* The loop from its head to its next suspension: entries that reached
\* max_retries are deleted (line 69) until an entry is attempted or the
\* queue is empty.  Gives the queue left.
RECURSIVE DropExhausted(_)
DropExhausted(q) ==
    IF q = <<>> THEN q
    ELSE LET e == q[IndexOfKey(q, OldestKey(q))]
         IN  IF ShouldRetry(e) THEN q
             ELSE DropExhausted(DictDel(q, OldestKey(q)))

\* the history after the loop removed the entries of q that are not in q2
MarkExhausted(its, q, q2) ==
    [u \in 1..Len(its) |->
        IF u \in QueueUids(q) \ QueueUids(q2)
        THEN [its[u] EXCEPT !.fate = "exhausted"]
        ELSE its[u]]

\* Task t runs the loop from its head on queue q with history its, until it
\* suspends in the POST of forward_data (line 80) or returns (line 71).
RunLoop(t, q, its) ==
    LET q2 == DropExhausted(q)
        its2 == MarkExhausted(its, q, q2)
    IN  IF q2 = <<>>
        THEN /\ retry_queue' = q2
             /\ items' = its2
             /\ tasks' = [tasks EXCEPT ![t] = [pc |-> "done", data_id |-> 0, uid |-> 0]]
             /\ processing_task' = NoneTask
        ELSE LET e == q2[IndexOfKey(q2, OldestKey(q2))]
             IN  /\ retry_queue' = q2
                 /\ items' = [its2 EXCEPT ![e.uid].attempts = @ + 1]
                 /\ tasks' = [tasks EXCEPT ![t] =
                                [pc |-> "posting", data_id |-> e.key, uid |-> e.uid]]
                 /\ processing_task' = processing_task

\* the event loop starts the task created by add_to_retry
DrainStart(t) ==
    /\ tasks[t].pc = "created"
    /\ RunLoop(t, retry_queue, items)
    /\ UNCHANGED <<clock, calls, dropped>>
    /\ UNCHANGED orchVars
    /\ UNCHANGED pureVars

\* retry_data['retry_count'] += 1 on the dict object the task holds: it
\* changes the queue only where that object is still the queue's value
BumpRetryCount(q, uid) ==
    [i \in 1..Len(q) |->
        IF q[i].uid = uid THEN [q[i] EXCEPT !.retry_count = @ + 1] ELSE q[i]]

\* mutant of line 53: the entry is not deleted
AfterSuccess_Keeps(q, k) == q

\* line 53 and its history: the entry under the key is deleted, the item the
\* task sent is delivered
AfterSuccess(q, k) == DictDel(q, k)

MarkDelivered(its, q, k, uid) ==
    LET gone == q[IndexOfKey(q, k)].uid
    IN  [u \in 1..Len(its) |->
            IF u = uid THEN [its[u] EXCEPT !.fate = "delivered"]
            ELSE IF u = gone THEN [its[u] EXCEPT !.fate = "lost"]
            ELSE its[u]]

\* the POST of forward_data returns to the task
DrainPostReturns(t, resp) ==
    /\ tasks[t].pc = "posting"
    /\ IF forward_data(resp) /\ HasKey(retry_queue, tasks[t].data_id)
       THEN \* lines 51-53, then the loop again
            RunLoop(t, AfterSuccess(retry_queue, tasks[t].data_id),
                    MarkDelivered(items, retry_queue, tasks[t].data_id, tasks[t].uid))
       ELSE \* lines 54-60, or the KeyError of line 53 handled at lines 61-65
            /\ retry_queue' = BumpRetryCount(retry_queue, tasks[t].uid)
            /\ tasks' = [tasks EXCEPT ![t].pc = "sleeping"]
            /\ items' = IF forward_data(resp)
                        THEN [items EXCEPT ![tasks[t].uid].fate = "delivered"]
                        ELSE items
            /\ UNCHANGED processing_task
    /\ UNCHANGED <<clock, calls, dropped>>
    /\ UNCHANGED orchVars
    /\ UNCHANGED pureVars

\* asyncio.sleep(self.timeout) is over
DrainWakes(t) ==
    /\ tasks[t].pc = "sleeping"
    /\ RunLoop(t, retry_queue, items)
    /\ UNCHANGED <<clock, calls, dropped>>
    /\ UNCHANGED orchVars
    /\ UNCHANGED pureVars

----------------------------------------------------------------------------
(* The callers of add_to_retry: the environment of the retry manager *)

\* the retry_count a caller passes: the default, one attempt left, none left
RetryCounts == {0, max_retries - 1, max_retries}

Enqueue ==
    /\ calls < MaxAdds
    /\ \E data \in Payloads, retry_count \in RetryCounts, now \in Now :
           add_to_retry(data, retry_count, now)

\* A burst of calls from one caller: add_to_retry has no await, so the drain
\* task cannot run between two calls of the burst.  Accepted calls that did
\* not lengthen the queue took a timestamp already used as a key.
Collisions == Len(items) - Len(retry_queue)

Fill ==
    /\ calls < max_queue_size + 1
    /\ \E now \in (IF Collisions < MaxCollisions THEN Now ELSE {clock + 1}) :
           add_to_retry(<<"data", 1>>, 0, now)

\* The queue at its capacity: a burst of BurstLen calls with distinct
\* timestamps brings the queue to one entry below max_queue_size; from then
\* on further calls and the steps of the drain task interleave in every
\* order, until MaxExtraAdds more calls were made and MaxLeft entries have
\* left the queue.
BurstLen == max_queue_size - 1

\* the entries that have left the queue, delivered or exhausted
Left ==
    Cardinality({u \in 1..Len(items) : items[u].fate \in {"delivered", "exhausted"}})

Burst ==
    /\ calls < BurstLen
    /\ add_to_retry(<<"data", 1>>, 0, clock + 1)

LateEnqueue ==
    /\ calls >= BurstLen
    /\ calls < max_queue_size + MaxExtraAdds
    /\ \E now \in Now : add_to_retry(<<"data", 1>>, 0, now)

Drain ==
    \E t \in TaskIds :
        \/ DrainStart(t)
        \/ \E resp \in BackendResponses(backend_healthy) : DrainPostReturns(t, resp)
        \/ DrainWakes(t)

LateDrain ==
    /\ calls >= BurstLen
    /\ Left < MaxLeft
    /\ Drain

----------------------------------------------------------------------------
(* The store (database.py): two collections of documents.  A document is   *)
(* [id, type, event_type, token, status, related, tag]: token and status   *)
(* are data.notification_messages_token and                                *)
(* data.notification_messages_status (None where the document has no such  *)
(* field), related is related_document_id (0 where it has none), tag is    *)
(* the top-level 'status' of an error log (None elsewhere).                *)

\* Database.__init__
db_max_retries == 3

RequestIds == 1..MaxRequests

\* process_webhook_data tells notification_messages from every other event
\* type and treats the others alike: "message" stands for them
EventTypes == {"message", "notification_messages"}
Tokens == {None, "tokA", "tokB"}
NotificationStatuses == {"AVAILABLE", "NOT_AVAILABLE"}

\* the event data of request r, as forward_to_backend is given it
EventData(r) == <<"data", r>>

\* find_one({'event_type': 'notification_messages',
\*           'data.notification_messages_token': token}): the id of the first
\* document that matches, 0 for None
\* mutant of the filter of find_one: the token is looked up under a path no
\* document has
TokenMatches_WrongPath(doc, token) ==
    doc.event_type = "notification_messages" /\ token = None

TokenMatches(doc, token) ==
    doc.event_type = "notification_messages" /\ doc.token = token

\* mutant of routes.py lines 134-137: the lookup finds nothing
find_one_NeverFinds(coll, token) == 0

find_one(coll, token) ==
    LET hits == {i \in 1..Len(coll) : TokenMatches(coll[i], token)}
    IN  IF hits = {} THEN 0
        ELSE coll[CHOOSE i \in hits : \A j \in hits : i <= j].id

\* update_one({'_id': id}, {'$set': {'data.notification_messages_status': status}})
update_one(coll, id, status) ==
    [i \in 1..Len(coll) |->
        IF coll[i].id = id THEN [coll[i] EXCEPT !.status = status] ELSE coll[i]]

\* insert_wh, lines 105-122: the collection a record goes to
IsNotificationLog(log) == log.event_type = "notification_messages"

\* the values insert_wh returns when it inserts nothing (lines 102, 127):
\* strings "error_no_connection_<t>" and "error_<t>"
ErrorNoConnection == -1
ErrorInsert == -2

\* `document_id` as a condition (routes.py line 175): every value insert_wh
\* returns is a non-empty string
Truthy(document_id) == document_id # 0

\* mutant of routes.py line 168: the confirmation is related to itself
LogOf_RelatedToItself(rq, stage, id) ==
    IF stage = "event"
    THEN [id |-> id, type |-> "fb_event_in", event_type |-> rq.event_type,
          token |-> rq.token, status |-> rq.status, related |-> 0, tag |-> None]
    ELSE IF stage = "confirm"
    THEN [id |-> id, type |-> "fb_event_confirm", event_type |-> rq.event_type,
          token |-> None, status |-> None, related |-> id, tag |-> None]
    ELSE IF stage = "forward_error"
    THEN [id |-> id, type |-> "fb_event_forward_error", event_type |-> rq.event_type,
          token |-> None, status |-> None, related |-> rq.document_id,
          tag |-> "pending_retry"]
    ELSE [id |-> id, type |-> "fb_event_force_confirm", event_type |-> None,
          token |-> None, status |-> None, related |-> 0, tag |-> None]

\* the record insert_wh is given at each of its call sites: routes.py lines
\* 162, 165-172 and 186-195, error_handler.py lines 28-34
LogOf(rq, stage, id) ==
    IF stage = "event"
    THEN [id |-> id, type |-> "fb_event_in", event_type |-> rq.event_type,
          token |-> rq.token, status |-> rq.status, related |-> 0, tag |-> None]
    ELSE IF stage = "confirm"
    THEN [id |-> id, type |-> "fb_event_confirm", event_type |-> rq.event_type,
          token |-> None, status |-> None, related |-> rq.document_id,
          tag |-> None]
    ELSE IF stage = "forward_error"
    THEN [id |-> id, type |-> "fb_event_forward_error", event_type |-> rq.event_type,
          token |-> None, status |-> None, related |-> rq.document_id,
          tag |-> "pending_retry"]
    ELSE [id |-> id, type |-> "fb_event_force_confirm", event_type |-> None,
          token |-> None, status |-> None, related |-> 0, tag |-> None]

----------------------------------------------------------------------------
(* process_webhook_data (routes.py), one background task per request.      *)
(* req[r] is [pc, stage, attempt, event_type, token, status, existing,     *)
(* document_id, forwarded, outcome, body, response]; pc names the await the *)
(* task is suspended in, forwarded is the document_id forward_to_backend   *)
(* was called with (0 before the call), body is what the handler found in  *)
(* the request, response is what the handler answered.                     *)

\* no forward has returned yet
NoOutcome == [success |-> FALSE, status_code |-> 0, sync |-> None, logged |-> FALSE]

\* no response has been sent yet
NoResponse ==
    [status_code |-> 0, status |-> None, message |-> None, event_type |-> None]

\* what the handler finds in the request (routes.py lines 51-58):
\* "unparsable" makes request.json() raise; "malformed" is JSON that makes
\* raw_data.get or extract_structured_data raise; "not_page" is an object
\* whose "object" is not "page"; "page_skipped" is classified as None;
\* "page_event" is classified as an event
RequestBodies == {"unparsable", "malformed", "not_page", "page_skipped", "page_event"}

\* the Response the handler builds (routes.py lines 60-68, 74-94, 96-100,
\* 106-114): its status code, and the status, message and event_type of its
\* content
HandlerResponse(rq) ==
    IF rq.body = "page_event"
    THEN [status_code |-> 200, status |-> "success",
          message |-> "Webhook received, processing in background",
          event_type |-> rq.event_type]
    ELSE IF rq.body = "page_skipped"
    THEN [status_code |-> 200, status |-> "skipped",
          message |-> "Event was skipped (e.g., comment from page)",
          event_type |-> None]
    ELSE IF rq.body = "not_page"
    THEN [status_code |-> 200, status |-> "success",
          message |-> "not_a_page_event", event_type |-> None]
    ELSE [status_code |-> 200, status |-> "error", message |-> "str(e)",
          event_type |-> None]

\* an exception left the handler (routes.py line 104 is inside the except
\* block and is not guarded): the server answers for it
ServerError ==
    [status_code |-> 500, status |-> None, message |-> "Internal Server Error",
     event_type |-> None]

IdleRequest ==
    [pc |-> "idle", stage |-> "none", attempt |-> 0, event_type |-> "message",
     token |-> None, status |-> None, existing |-> 0, document_id |-> 0,
     forwarded |-> 0, outcome |-> NoOutcome, body |-> None,
     response |-> NoResponse]

Active(rq) == rq.pc \notin {"idle", "done", "raised"}

\* mutant of routes.py line 175: the event type is not looked at
ShouldForward_AnyType(enabled, document_id, event_type) ==
    enabled /\ Truthy(document_id)

\* routes.py line 175
ShouldForward(enabled, document_id, event_type) ==
    enabled /\ Truthy(document_id) /\ event_type # "notification_messages"

\* routes.py lines 128-130: the duplicate check is made
ChecksToken(rq, ready) ==
    /\ rq.event_type = "notification_messages"
    /\ rq.token # None
    /\ ready

\* The start of insert_wh (database.py lines 99-102, _ensure_connection lines
\* 81-89) for the insert of `stage`, _connection_ready being `ready`: with the
\* connection ready the task suspends in insert_one; otherwise
\* _initialize_connections is tried at once, and the task sleeps when it fails.
\* Gives [rq, ready, failed, fwd]: the request, _connection_ready, whether a
\* store call has failed, whether forward_to_backend was called.
BeginInsert(rq, stage, ready, failed) ==
    IF ready \/ mongo_up
    THEN [rq |-> [rq EXCEPT !.pc = "insert_one", !.stage = stage, !.attempt = 0],
          ready |-> TRUE, failed |-> failed, fwd |-> FALSE]
    ELSE [rq |-> [rq EXCEPT !.pc = "reconnect_sleep", !.stage = stage, !.attempt = 1],
          ready |-> FALSE, failed |-> TRUE, fwd |-> FALSE]

\* insert_wh returned `id` for the insert of rq.stage: routes.py lines 162-182
\* up to the next await; for the insert of log_error called by the handler,
\* error_handler.py line 34 and routes.py lines 106-114
AfterInsert(rq, id, ready, failed) ==
    IF rq.stage = "event"
    THEN BeginInsert([rq EXCEPT !.document_id = id], "confirm", ready, failed)
    ELSE IF rq.stage = "confirm"
    THEN IF ShouldForward(ENABLE_FORWARDING, rq.document_id, rq.event_type)
         THEN [rq |-> [rq EXCEPT !.pc = "post", !.stage = "forward",
                                 !.forwarded = rq.document_id],
               ready |-> ready, failed |-> failed, fwd |-> TRUE]
         ELSE [rq |-> [rq EXCEPT !.pc = "done", !.stage = "none"],
               ready |-> ready, failed |-> failed, fwd |-> FALSE]
    ELSE IF rq.stage = "forward_error"
    THEN [rq |-> [rq EXCEPT !.pc = "done", !.stage = "none"],
          ready |-> ready, failed |-> failed, fwd |-> FALSE]
    ELSE [rq |-> [rq EXCEPT !.pc = "done", !.stage = "none",
                            !.response = HandlerResponse(rq)],
          ready |-> ready, failed |-> failed, fwd |-> FALSE]

\* insert_one raised and the handler of insert_wh (database.py lines 124-127)
\* runs.  Line 126 serialises log with json.dumps; the driver's insert_one
\* puts an ObjectId under '_id' into log before it sends it, and json.dumps
\* raises TypeError on an ObjectId, so the handler raises out of insert_wh.
\* When the call fails before the driver touched log, line 127 returns.
InsertFailureRaises == BOOLEAN

\* insert_wh raised for the insert of rq.stage.  In process_webhook_data
\* (stages "event" and "confirm") the except block of routes.py lines 206-213
\* runs; `log_error` is a local name of that function, bound only by line
\* 197, so line 213 raises UnboundLocalError and the task ends with it.  The
\* insert of line 195 is guarded by lines 194-198.  In the handler the
\* exception leaves log_error (routes.py line 104) and the handler.
AfterInsertRaised(rq, ready, failed) ==
    IF rq.stage \in {"event", "confirm"}
    THEN [rq |-> [rq EXCEPT !.pc = "raised", !.stage = "none"],
          ready |-> ready, failed |-> failed, fwd |-> FALSE]
    ELSE IF rq.stage = "forward_error"
    THEN [rq |-> [rq EXCEPT !.pc = "done", !.stage = "none"],
          ready |-> ready, failed |-> failed, fwd |-> FALSE]
    ELSE [rq |-> [rq EXCEPT !.pc = "raised", !.stage = "none",
                            !.response = ServerError],
          ready |-> ready, failed |-> failed, fwd |-> FALSE]

\* the step's result written to the state
Apply(r, res) ==
    /\ req' = [req EXCEPT ![r] = res.rq]
    /\ connection_ready' = res.ready
    /\ store_failed' = res.failed
    /\ forward_calls' = IF res.fwd THEN forward_calls \cup {r} ELSE forward_calls

\* mutant of routes.py lines 73-94: the response is not built when the task
\* is scheduled
Handle_NoResponseYet(rq, ready, failed) ==
    IF rq.body = "page_event"
    THEN [rq |-> [rq EXCEPT !.pc = "start"],
          ready |-> ready, failed |-> failed, fwd |-> FALSE]
    ELSE IF rq.body \in {"page_skipped", "not_page"}
    THEN [rq |-> [rq EXCEPT !.pc = "done", !.response = HandlerResponse(rq)],
          ready |-> ready, failed |-> failed, fwd |-> FALSE]
    ELSE BeginInsert(rq, "force_confirm", ready, failed)

\* mutant of routes.py lines 58-68: the background task is scheduled for a
\* skipped event too
Handle_SchedulesSkipped(rq, ready, failed) ==
    IF rq.body \in {"page_event", "page_skipped"}
    THEN [rq |-> [rq EXCEPT !.pc = "start", !.response = HandlerResponse(rq)],
          ready |-> ready, failed |-> failed, fwd |-> FALSE]
    ELSE IF rq.body = "not_page"
    THEN [rq |-> [rq EXCEPT !.pc = "done", !.response = HandlerResponse(rq)],
          ready |-> ready, failed |-> failed, fwd |-> FALSE]
    ELSE BeginInsert(rq, "force_confirm", ready, failed)

\* The handler from its start to its return or to its first await that
\* suspends (routes.py lines 47-104).  For an event the classifier produced
\* it schedules the background task (lines 82-88) and returns; for a skipped
\* event or another object it returns; when an exception was raised it goes
\* into log_error, that is into insert_wh.
Handle(rq, ready, failed) ==
    IF rq.body = "page_event"
    THEN [rq |-> [rq EXCEPT !.pc = "start", !.response = HandlerResponse(rq)],
          ready |-> ready, failed |-> failed, fwd |-> FALSE]
    ELSE IF rq.body \in {"page_skipped", "not_page"}
    THEN [rq |-> [rq EXCEPT !.pc = "done", !.response = HandlerResponse(rq)],
          ready |-> ready, failed |-> failed, fwd |-> FALSE]
    ELSE BeginInsert(rq, "force_confirm", ready, failed)

\* a request arrives: the webhook handler (routes.py lines 38-114)
webhook(r) ==
    /\ req[r].pc = "idle"
    /\ \A q \in RequestIds : q < r => req[q].pc # "idle"
    /\ \E body \in RequestBodies, et \in EventTypes, token \in Tokens,
          status \in NotificationStatuses :
        /\ body # "page_event" => et = "message"
        /\ et # "notification_messages" => token = None /\ status = "AVAILABLE"
        /\ Apply(r, Handle([IdleRequest EXCEPT !.body = body, !.event_type = et,
                               !.token = token,
                               !.status = IF et = "notification_messages"
                                          THEN status ELSE None],
                           connection_ready, store_failed))
    /\ overlapped' = (overlapped \/ \E q \in RequestIds : Active(req[q]))
    /\ UNCHANGED <<notification_collection, logs_collection, mongo_up,
                   backend_healthy, ENABLE_FORWARDING, next_id, received,
                   updates>>
    /\ UNCHANGED retryVars
    /\ UNCHANGED pureVars

\* routes.py lines 126-134 or 126-162: up to the await of find_one or of
\* insert_wh
ProcessStart(r) ==
    /\ req[r].pc = "start"
    /\ IF ChecksToken(req[r], connection_ready)
       THEN Apply(r, [rq |-> [req[r] EXCEPT !.pc = "find_one"],
                      ready |-> connection_ready, failed |-> store_failed,
                      fwd |-> FALSE])
       ELSE Apply(r, BeginInsert(req[r], "event", connection_ready,
                      store_failed \/ (req[r].event_type = "notification_messages"
                                       /\ req[r].token # None)))
    /\ UNCHANGED <<notification_collection, logs_collection, mongo_up,
                   backend_healthy, ENABLE_FORWARDING, next_id, received,
                   updates, overlapped>>
    /\ UNCHANGED retryVars
    /\ UNCHANGED pureVars

\* find_one returns or raises (routes.py lines 134-157)
FindOneReturns(r) ==
    /\ req[r].pc = "find_one"
    /\ LET found == find_one(notification_collection, req[r].token)
       IN  IF mongo_up /\ found # 0
           THEN Apply(r, [rq |-> [req[r] EXCEPT !.pc = "update_one", !.existing = found],
                          ready |-> connection_ready, failed |-> store_failed,
                          fwd |-> FALSE])
           ELSE Apply(r, BeginInsert(req[r], "event", connection_ready,
                                     store_failed \/ ~mongo_up))
    /\ UNCHANGED <<notification_collection, logs_collection, mongo_up,
                   backend_healthy, ENABLE_FORWARDING, next_id, received,
                   updates, overlapped>>
    /\ UNCHANGED retryVars
    /\ UNCHANGED pureVars

\* update_one returns (routes.py lines 144-152: the task returns) or raises
\* (lines 153-154: the task goes on to line 162)
UpdateOneReturns(r) ==
    /\ req[r].pc = "update_one"
    /\ IF mongo_up
       THEN /\ notification_collection' =
                  update_one(notification_collection, req[r].existing, req[r].status)
            /\ updates' = Append(updates,
                  [id |-> req[r].existing, by |-> r,
                   before |-> notification_collection,
                   after |-> update_one(notification_collection, req[r].existing,
                                        req[r].status)])
            /\ Apply(r, [rq |-> [req[r] EXCEPT !.pc = "done"],
                         ready |-> connection_ready, failed |-> store_failed,
                         fwd |-> FALSE])
       ELSE /\ Apply(r, BeginInsert(req[r], "event", connection_ready, TRUE))
            /\ UNCHANGED <<notification_collection, updates>>
    /\ UNCHANGED <<logs_collection, mongo_up, backend_healthy, ENABLE_FORWARDING,
                   next_id, received, overlapped>>
    /\ UNCHANGED retryVars
    /\ UNCHANGED pureVars

\* _ensure_connection, lines 82-94: the sleep after a failed attempt is over;
\* the next attempt is made, or the attempts are used up and insert_wh
\* returns its error value (line 102)
ReconnectWakes(r) ==
    /\ req[r].pc = "reconnect_sleep"
    /\ IF req[r].attempt < db_max_retries
       THEN IF mongo_up
            THEN Apply(r, [rq |-> [req[r] EXCEPT !.pc = "insert_one", !.attempt = 0],
                           ready |-> TRUE, failed |-> store_failed, fwd |-> FALSE])
            ELSE Apply(r, [rq |-> [req[r] EXCEPT !.attempt = @ + 1],
                           ready |-> FALSE, failed |-> TRUE, fwd |-> FALSE])
       ELSE Apply(r, AfterInsert([req[r] EXCEPT !.attempt = 0], ErrorNoConnection,
                                 connection_ready, TRUE))
    /\ UNCHANGED <<notification_collection, logs_collection, mongo_up,
                   backend_healthy, ENABLE_FORWARDING, next_id, received,
                   updates, overlapped>>
    /\ UNCHANGED retryVars
    /\ UNCHANGED pureVars

\* insert_one returns (database.py lines 111-113, 120-122) or raises
\* (lines 124-127)
InsertOneReturns(r) ==
    /\ req[r].pc = "insert_one"
    /\ IF mongo_up
       THEN LET log == LogOf(req[r], req[r].stage, next_id)
            IN  /\ IF IsNotificationLog(log)
                   THEN /\ notification_collection' = Append(notification_collection, log)
                        /\ UNCHANGED logs_collection
                   ELSE /\ logs_collection' = Append(logs_collection, log)
                        /\ UNCHANGED notification_collection
                /\ next_id' = next_id + 1
                /\ Apply(r, AfterInsert(req[r], next_id, connection_ready, store_failed))
       ELSE /\ \E raises \in InsertFailureRaises :
                  Apply(r, IF raises
                           THEN AfterInsertRaised(req[r], connection_ready, TRUE)
                           ELSE AfterInsert(req[r], ErrorInsert, connection_ready, TRUE))
            /\ UNCHANGED <<notification_collection, logs_collection, next_id>>
    /\ UNCHANGED <<mongo_up, backend_healthy, ENABLE_FORWARDING, received,
                   updates, overlapped>>
    /\ UNCHANGED retryVars
    /\ UNCHANGED pureVars

----------------------------------------------------------------------------
(* forward_to_backend (utils/webhook_forwarder.py) *)

\* log_failed_forward, lines 201-215: the queue it is meant to write to is
\* left as it is; the body only prints
log_failed_forward(q, document_id, event_type, data, status_code) == q

\* lines 53-107: the ForwardOutcome for the result of the POST, and whether
\* log_failed_forward is called on the way
ForwardOutcome(resp) ==
    IF resp.kind = "status"
    THEN IF resp.status = 200
         THEN IF resp.body = "text"
              THEN \* response.json() raises: lines 97-107
                   [success |-> FALSE, status_code |-> 0, sync |-> None, logged |-> TRUE]
              ELSE [success |-> TRUE, status_code |-> 200, sync |-> "sync", logged |-> FALSE]
         ELSE IF resp.status \in {201, 202}
         THEN [success |-> TRUE, status_code |-> resp.status, sync |-> "async",
               logged |-> FALSE]
         ELSE [success |-> FALSE, status_code |-> resp.status, sync |-> None,
               logged |-> TRUE]
    ELSE IF resp.kind \in {"connect_error", "timeout"}
    THEN [success |-> FALSE, status_code |-> 0, sync |-> None, logged |-> FALSE]
    ELSE [success |-> FALSE, status_code |-> 0, sync |-> None, logged |-> TRUE]

\* mutant of lines 13 and 97: response.json() of line 65 is not guarded
ForwardRaises_OnBadJson(resp) ==
    resp.kind = "status" /\ resp.status = 200 /\ resp.body = "text"

\* forward_to_backend raises to its caller: its whole body is inside the try
\* of line 13, whose handler (lines 97-107) catches every Exception and
\* returns
ForwardRaises(resp) == FALSE

\* the POST of forward_to_backend returns or raises.  When forward_to_backend
\* returns, process_webhook_data returns too (routes.py lines 178-182: the
\* result is not looked at); when it raises, the error log is written
\* (lines 183-198)
ForwardReturns(r, resp) ==
    /\ req[r].pc = "post"
    /\ LET out == ForwardOutcome(resp)
           rq == [req[r] EXCEPT !.outcome = out]
       IN  /\ IF ForwardRaises(resp)
              THEN Apply(r, BeginInsert(rq, "forward_error", connection_ready,
                                        store_failed))
              ELSE Apply(r, [rq |-> [rq EXCEPT !.pc = "done", !.stage = "none"],
                             ready |-> connection_ready, failed |-> store_failed,
                             fwd |-> FALSE])
           /\ retry_queue' =
                 IF out.logged
                 THEN log_failed_forward(retry_queue, req[r].document_id,
                                         req[r].event_type, EventData(r), out.status_code)
                 ELSE retry_queue
    /\ received' = IF Accepted(resp) THEN received \cup {r} ELSE received
    /\ UNCHANGED <<notification_collection, logs_collection, mongo_up,
                   backend_healthy, ENABLE_FORWARDING, next_id, updates,
                   overlapped>>
    /\ UNCHANGED <<processing_task, tasks, clock, calls, dropped, items>>
    /\ UNCHANGED pureVars

----------------------------------------------------------------------------
(* The environment of the orchestrator *)

\* the store becomes unreachable, or reachable again
StoreChanges ==
    /\ mongo_up' = ~mongo_up
    /\ UNCHANGED <<req, notification_collection, logs_collection, connection_ready,
                   backend_healthy, ENABLE_FORWARDING, next_id, forward_calls,
                   received, updates, overlapped, store_failed>>
    /\ UNCHANGED retryVars
    /\ UNCHANGED pureVars

\* the backend fails, or recovers
BackendChanges ==
    /\ backend_healthy' = ~backend_healthy
    /\ UNCHANGED <<req, notification_collection, logs_collection, connection_ready,
                   mongo_up, ENABLE_FORWARDING, next_id, forward_calls,
                   received, updates, overlapped, store_failed>>
    /\ UNCHANGED retryVars
    /\ UNCHANGED pureVars

\* a step of the background task of request r
ProcessStep(r) ==
    \/ ProcessStart(r)
    \/ FindOneReturns(r)
    \/ UpdateOneReturns(r)
    \/ ReconnectWakes(r)
    \/ InsertOneReturns(r)
    \/ \E resp \in BackendResponses(backend_healthy) : ForwardReturns(r, resp)

Process == \E r \in RequestIds : webhook(r) \/ ProcessStep(r)

----------------------------------------------------------------------------
(* Values of the raw payload.  A field that is absent and a field that is  *)
(* null both read as None with dict.get(key).  Ids, names and times are    *)
(* opaque strings; post ids and free texts are sequences of characters,    *)
(* because the code splits and cuts them.  A sub-object (sender, recipient,*)
(* message, optin, messaging_customer_information, from, value) is read    *)
(* with dict.get(key, {}): when it is absent the read gives {}, when it is *)
(* null the read gives None and the next .get on it raises.  Each          *)
(* messaging item and each change names its absent sub-objects in `absent` *)
(* and its null ones in `nulls`.                                           *)

\* None, for a field whose values are sequences of characters
NoneChars == <<None>>

\* `not v` for such a field: None or the empty string
FalsyChars(v) == v = NoneChars \/ v = <<>>

\* isinstance(v, str)
IsStr(v) == v # NoneChars

\* `not v` for an opaque string field: None or ""
Falsy(v) == v = None \/ v = ""

\* d.get(key, default), v being d.get(key)
Default(v, default) == IF v = None THEN default ELSE v

\* mutant of the reads of the sub-objects: obj.get(name) for
\* obj.get(name, {}), so that an absent sub-object reads as None too
Raises_NoDefault(obj, names) == names \cap (obj.nulls \cup obj.absent) # {}

\* obj.get(name, {}).get(...) for each of `names`: AttributeError when one
\* of them is null
Raises(obj, names) == names \cap obj.nulls # {}

RECURSIVE split(_, _)
\* s.split(sep) for a separator of one character
split(s, sep) ==
    IF \A i \in 1..Len(s) : s[i] # sep THEN <<s>>
    ELSE LET i == CHOOSE k \in 1..Len(s) :
                      s[k] = sep /\ \A j \in 1..(k - 1) : s[j] # sep
         IN  <<SubSeq(s, 1, i - 1)>> \o split(SubSeq(s, i + 1, Len(s)), sep)

\* s[:n]
Prefix(s, n) == SubSeq(s, 1, IF Len(s) < n THEN Len(s) ELSE n)

----------------------------------------------------------------------------
(* extract_structured_data (utils/webhook_parser.py).  The result is a     *)
(* record [is_none, raised, type, version_api, page_id, event_type, data]; *)
(* is_none says that the function returned None, raised that an exception  *)
(* left it.  time_id is left out.                                          *)

\* the mapping {}
EmptyData == [k \in {} |-> None]

\* lines 48-55
BaseStructuredData ==
    [is_none |-> FALSE, raised |-> FALSE, type |-> "fb_event_in",
     version_api |-> "21-03: 17.00", page_id |-> None, event_type |-> "unknown",
     data |-> EmptyData]

NoneResult == [BaseStructuredData EXCEPT !.is_none = TRUE, !.event_type = None]

\* an AttributeError leaves the function, and every caller up to the handler
Raised == [BaseStructuredData EXCEPT !.raised = TRUE, !.event_type = None]

\* mutant of lines 147-148: the recipient's id is taken for the sender's
handle_message_RecipientAsSender(messaging, structured_data) ==
    IF Raises(messaging, {"sender", "recipient", "message"}) THEN Raised
    ELSE [structured_data EXCEPT
            !.event_type = "message",
            !.data = [sender_id |-> messaging.recipient_id,
                      recipient_id |-> messaging.recipient_id,
                      message_id |-> messaging.mid,
                      text |-> messaging.text,
                      timestamp |-> messaging.timestamp]]

\* lines 144-162
handle_message(messaging, structured_data) ==
    IF Raises(messaging, {"sender", "recipient", "message"}) THEN Raised
    ELSE [structured_data EXCEPT
            !.event_type = "message",
            !.data = [sender_id |-> messaging.sender_id,
                      recipient_id |-> messaging.recipient_id,
                      message_id |-> messaging.mid,
                      text |-> messaging.text,
                      timestamp |-> messaging.timestamp]]

\* mutant of line 174: the status is compared with None only
NewStatus_NoneOnly(current_status) ==
    IF current_status = None \/ current_status = "RESUME_NOTIFICATIONS"
    THEN "AVAILABLE" ELSE "NOT_AVAILABLE"

\* line 174
NewStatus(current_status) ==
    IF Falsy(current_status) \/ current_status = "RESUME_NOTIFICATIONS"
    THEN "AVAILABLE" ELSE "NOT_AVAILABLE"

\* lines 164-191
handle_notification_messages(messaging, structured_data) ==
    IF Raises(messaging, {"optin"}) THEN Raised
    ELSE IF messaging.optin_type # "notification_messages"
    THEN NoneResult
    ELSE IF Raises(messaging, {"sender", "recipient"}) THEN Raised
    ELSE [structured_data EXCEPT
            !.event_type = "notification_messages",
            !.data = [sender_id |-> messaging.sender_id,
                      recipient_id |-> messaging.recipient_id,
                      notification_messages_token |-> messaging.token,
                      token_expiry_timestamp |-> messaging.token_expiry_timestamp,
                      user_token_status |-> messaging.user_token_status,
                      notification_messages_timezone |-> messaging.timezone,
                      title |-> messaging.title,
                      notification_messages_status |-> NewStatus(messaging.status)]]

RECURSIVE AddressData(_)
\* lines 202-209: the responses of the "Add address" screens, as the set of
\* the keys with their last value
AddressData(responses) ==
    IF responses = <<>> THEN {}
    ELSE LET last == responses[Len(responses)]
             before == AddressData(SubSeq(responses, 1, Len(responses) - 1))
         IN  IF last.screen_id = "Add address" /\ ~Falsy(last.key) /\ ~Falsy(last.value)
             THEN {kv \in before : kv[1] # last.key} \cup {<<last.key, last.value>>}
             ELSE before

\* lines 193-223
handle_address_form(messaging, structured_data) ==
    IF Raises(messaging, {"sender", "recipient", "messaging_customer_information"})
    THEN Raised
    ELSE [structured_data EXCEPT
            !.event_type = "address_form",
            !.data = [sender_id |-> messaging.sender_id,
                      recipient_id |-> messaging.recipient_id,
                      timestamp |-> messaging.timestamp,
                      address |-> AddressData(messaging.responses)]]

\* mutant of line 233: a comment is never taken for the page's own
IsFromPage_Never(sender_id, page_id) == FALSE

\* line 233
IsFromPage(sender_id, page_id) == sender_id = page_id

\* lines 225-253
handle_comment(value, structured_data) ==
    IF Raises(value, {"from"}) THEN Raised
    ELSE IF IsFromPage(value.from_id, structured_data.page_id)
    THEN NoneResult
    ELSE [structured_data EXCEPT
            !.event_type = "comment",
            !.data = [sender_id |-> value.from_id,
                      sender_name |-> value.from_name,
                      post_id |-> value.post_id,
                      comment_id |-> value.comment_id,
                      message |-> value.message,
                      created_time |-> value.created_time,
                      parent_id |-> value.parent_id,
                      is_hidden |-> Default(value.is_hidden, "False"),
                      is_private |-> Default(value.is_private, "False")]]

\* lines 264 and 292
PostParts(post_id) ==
    IF FalsyChars(post_id) THEN << <<>>, <<>> >> ELSE split(post_id, "_")

\* lines 266 and 294
PostNumber(post_parts) == IF Len(post_parts) > 1 THEN post_parts[2] ELSE <<>>

\* lines 255-282
handle_reaction(value, structured_data) ==
    IF Raises(value, {"from"}) THEN Raised ELSE
    [structured_data EXCEPT
        !.event_type = "reaction",
        !.data = [sender_id |-> value.from_id,
                  sender_name |-> value.from_name,
                  post_id |-> value.post_id,
                  reaction_type |-> value.reaction_type,
                  created_time |-> value.created_time,
                  page_id |-> PostParts(value.post_id)[1],
                  post_number |-> PostNumber(PostParts(value.post_id))]]

\* mutant of lines 296-303: the data of a like is built like that of a
\* reaction
handle_like_AsReaction(value, structured_data) ==
    IF Raises(value, {"from"}) THEN Raised ELSE
    [structured_data EXCEPT
        !.event_type = "like",
        !.data = [sender_id |-> value.from_id,
                  sender_name |-> value.from_name,
                  post_id |-> value.post_id,
                  reaction_type |-> value.reaction_type,
                  created_time |-> value.created_time,
                  page_id |-> PostParts(value.post_id)[1],
                  post_number |-> PostNumber(PostParts(value.post_id))]]

\* lines 284-309
handle_like(value, structured_data) ==
    IF Raises(value, {"from"}) THEN Raised ELSE
    [structured_data EXCEPT
        !.event_type = "like",
        !.data = [sender_id |-> value.from_id,
                  sender_name |-> value.from_name,
                  post_id |-> value.post_id,
                  created_time |-> value.created_time,
                  page_id |-> PostParts(value.post_id)[1],
                  post_number |-> PostNumber(PostParts(value.post_id))]]

\* lines 311-332
handle_post_creation(value, structured_data) ==
    IF Raises(value, {"from"}) THEN Raised ELSE
    [structured_data EXCEPT
        !.event_type = "post_creation",
        !.data = [sender_id |-> value.from_id,
                  sender_name |-> value.from_name,
                  post_id |-> value.post_id,
                  message |-> value.message,
                  created_time |-> value.created_time,
                  type |-> Default(value.type, "status")]]

\* lines 334-355
handle_photo_post(value, structured_data) ==
    IF Raises(value, {"from"}) THEN Raised ELSE
    [structured_data EXCEPT
        !.event_type = "photo_post",
        !.data = [sender_id |-> value.from_id,
                  sender_name |-> value.from_name,
                  post_id |-> value.post_id,
                  message |-> value.message,
                  created_time |-> value.created_time,
                  photo_id |-> value.photo_id,
                  type |-> "photo"]]

\* lines 80-103: the first item of the list decides
parse_messaging_event(entry, structured_data) ==
    IF entry.messaging = <<>> THEN NoneResult
    ELSE LET messaging == entry.messaging[1]
         IN  IF messaging.has_optin
             THEN handle_notification_messages(messaging, structured_data)
             ELSE IF messaging.has_customer_information
             THEN handle_address_form(messaging, structured_data)
             ELSE handle_message(messaging, structured_data)

RECURSIVE ParseChanges(_, _)
\* lines 116-139: the loop over the changes from `changes` on; line 121
\* reads value.get("item") for a feed change
ParseChanges(changes, structured_data) ==
    IF changes = <<>> THEN NoneResult
    ELSE LET value == changes[1]
         IN  IF value.field = "feed" /\ Raises(value, {"value"})
             THEN Raised
             ELSE IF value.field = "feed" /\ value.item = "comment"
             THEN handle_comment(value, structured_data)
             ELSE IF value.field = "feed" /\ value.item = "reaction"
             THEN handle_reaction(value, structured_data)
             ELSE IF value.field = "feed" /\ value.item = "like"
             THEN handle_like(value, structured_data)
             ELSE IF value.field = "feed" /\ value.item = "status" /\ value.verb = "add"
             THEN handle_post_creation(value, structured_data)
             ELSE IF value.field = "feed" /\ value.item = "photo" /\ value.verb = "add"
             THEN handle_photo_post(value, structured_data)
             ELSE ParseChanges(Tail(changes), structured_data)

\* mutant of line 116: only the first change of the list is looked at
parse_changes_event_FirstOnly(entry, structured_data) ==
    IF entry.changes = <<>> THEN NoneResult
    ELSE ParseChanges(<<entry.changes[1]>>, structured_data)

\* lines 105-139
parse_changes_event(entry, structured_data) ==
    ParseChanges(entry.changes, structured_data)

RECURSIVE ParseEntries(_, _)
\* lines 58-78: the loop over the entries from `entries` on
ParseEntries(entries, structured_data) ==
    IF entries = <<>> THEN structured_data
    ELSE LET entry == entries[1]
             sd == [structured_data EXCEPT !.page_id = entry.id]
             m == IF entry.has_messaging
                  THEN parse_messaging_event(entry, sd) ELSE NoneResult
         IN  IF m.raised \/ ~m.is_none THEN m
             ELSE IF entry.has_changes THEN parse_changes_event(entry, sd)
             ELSE ParseEntries(Tail(entries), sd)

\* lines 36-78
extract_structured_data(raw_data) == ParseEntries(raw_data.entry, BaseStructuredData)

----------------------------------------------------------------------------
(* forward_to_backend up to its POST (utils/webhook_forwarder.py lines      *)
(* 28-46).  data is [fields, size]: the mapping, and len(json.dumps(data)), *)
(* which the length of the names and texts decides.                         *)

\* lines 188-189
high_priority_events == {"order_created", "payment_received"}
large_data_threshold == 10000

\* mutant of line 196: >= for >
should_process_async_AtThreshold(event_type, data) ==
    \/ event_type \in {"comment", "post_creation", "photo_post"}
    \/ event_type \in high_priority_events
    \/ data.size >= large_data_threshold

\* lines 179-199
should_process_async(event_type, data) ==
    \/ event_type \in {"comment", "post_creation", "photo_post"}
    \/ event_type \in high_priority_events
    \/ data.size > large_data_threshold

\* `if key in data: metadata[as] = data[key]`
Copy(fields, key, as) ==
    IF key \in DOMAIN fields THEN as :> fields[key] ELSE EmptyData

\* what stands for the TypeError of None[:n]
TypeError == <<"TypeError">>

\* v[:n]: a string can be sliced, None cannot
Slice(v, n) == IF IsStr(v) THEN Prefix(v, n) ELSE TypeError

\* `if key in data and isinstance(data[key], str): metadata[as] = data[key][:50]`
Preview(fields, key, as) ==
    IF key \in DOMAIN fields /\ IsStr(fields[key])
    THEN as :> Slice(fields[key], 50) ELSE EmptyData

\* mutant of lines 115-171: the sender is copied for every event type
MetadataOf_SenderForAll(event_type, fields) ==
    IF event_type = "message"
    THEN Copy(fields, "sender_id", "sender_id")
         @@ Preview(fields, "text", "message_preview")
         @@ Copy(fields, "timestamp", "original_timestamp")
    ELSE IF event_type = "comment"
    THEN Copy(fields, "sender_id", "sender_id")
         @@ Copy(fields, "post_id", "post_id")
         @@ Copy(fields, "comment_id", "comment_id")
    ELSE IF event_type = "reaction" \/ event_type = "like"
    THEN Copy(fields, "sender_id", "sender_id")
         @@ Copy(fields, "post_id", "post_id")
         @@ Copy(fields, "reaction_type", "reaction_type")
    ELSE IF event_type = "post_creation"
    THEN Copy(fields, "sender_id", "sender_id")
         @@ Copy(fields, "post_id", "post_id")
         @@ Preview(fields, "message", "post_preview")
         @@ Copy(fields, "created_time", "created_time")
         @@ Copy(fields, "type", "post_type")
    ELSE IF event_type = "photo_post"
    THEN Copy(fields, "sender_id", "sender_id")
         @@ Copy(fields, "post_id", "post_id")
         @@ Preview(fields, "message", "post_preview")
         @@ Copy(fields, "created_time", "created_time")
         @@ Copy(fields, "photo_id", "photo_id")
         @@ ("has_photo" :> TRUE)
    ELSE Copy(fields, "sender_id", "sender_id")

\* lines 115-171: what is added for the event type
MetadataOf(event_type, fields) ==
    IF event_type = "message"
    THEN Copy(fields, "sender_id", "sender_id")
         @@ Preview(fields, "text", "message_preview")
         @@ Copy(fields, "timestamp", "original_timestamp")
    ELSE IF event_type = "comment"
    THEN Copy(fields, "sender_id", "sender_id")
         @@ Copy(fields, "post_id", "post_id")
         @@ Copy(fields, "comment_id", "comment_id")
    ELSE IF event_type = "reaction" \/ event_type = "like"
    THEN Copy(fields, "sender_id", "sender_id")
         @@ Copy(fields, "post_id", "post_id")
         @@ Copy(fields, "reaction_type", "reaction_type")
    ELSE IF event_type = "post_creation"
    THEN Copy(fields, "sender_id", "sender_id")
         @@ Copy(fields, "post_id", "post_id")
         @@ Preview(fields, "message", "post_preview")
         @@ Copy(fields, "created_time", "created_time")
         @@ Copy(fields, "type", "post_type")
    ELSE IF event_type = "photo_post"
    THEN Copy(fields, "sender_id", "sender_id")
         @@ Copy(fields, "post_id", "post_id")
         @@ Preview(fields, "message", "post_preview")
         @@ Copy(fields, "created_time", "created_time")
         @@ Copy(fields, "photo_id", "photo_id")
         @@ ("has_photo" :> TRUE)
    ELSE EmptyData

\* lines 109-177
extract_essential_metadata(event_type, data) ==
    [is_metadata_only |-> TRUE, full_data_available_in_db |-> TRUE]
    @@ MetadataOf(event_type, data.fields)
    @@ [source |-> "facebook_webhook"]

\* mutant of line 36: the full data is sent whatever the mode
Payload_FullData(document_id, event_type, data) ==
    LET is_async_event == should_process_async(event_type, data)
    IN  [document_id |-> document_id,
         event_type |-> event_type,
         data |-> data.fields,
         processing_preference |-> IF is_async_event THEN "async" ELSE "sync"]

\* lines 28-46: the payload of the POST; its timestamp is left out
Payload(document_id, event_type, data) ==
    LET is_async_event == should_process_async(event_type, data)
        metadata == extract_essential_metadata(event_type, data)
    IN  [document_id |-> document_id,
         event_type |-> event_type,
         data |-> IF is_async_event THEN metadata ELSE data.fields,
         processing_preference |-> IF is_async_event THEN "async" ELSE "sync"]

----------------------------------------------------------------------------
(* The raw payloads the classifier is given.  A messaging item is          *)
(* flattened: sender_id is sender.id, mid and text are message.mid and     *)
(* message.text, optin_type, token, status and the four fields after them  *)
(* are the fields of optin, responses are the responses of the screens of  *)
(* messaging_customer_information, each with the screen_id of its screen.  *)
(* A change is flattened too: from_id is value.from.id, and so on.         *)

Ids == {None, "123", "456"}

Chars123 == <<"1", "2", "3">>
Chars456 == <<"4", "5", "6">>
Chars123_456 == Chars123 \o <<"_">> \o Chars456
Chars123_456_789 == Chars123_456 \o <<"_", "7", "8", "9">>

PostIds == {NoneChars, <<>>, Chars123, Chars123_456, Chars123_456_789}

\* the values of optin.notification_messages_status
IncomingStatuses ==
    {None, "", "RESUME_NOTIFICATIONS", "PAUSE_NOTIFICATIONS", "STOP_NOTIFICATIONS"}

\* a plain message
Message0 ==
    [sender_id |-> "S", recipient_id |-> "R", mid |-> None, text |-> <<"h", "i">>,
     timestamp |-> "1700000000", has_optin |-> FALSE, optin_type |-> None,
     token |-> None, status |-> None, token_expiry_timestamp |-> None,
     user_token_status |-> None, timezone |-> None, title |-> None,
     has_customer_information |-> FALSE, responses |-> <<>>,
     absent |-> {}, nulls |-> {}]

Optins ==
    {[Message0 EXCEPT !.has_optin = TRUE, !.optin_type = "notification_messages",
                      !.token = k, !.status = st, !.title = "news"] :
        k \in {None, "tokA"}, st \in IncomingStatuses}
    \cup {[Message0 EXCEPT !.has_optin = TRUE, !.optin_type = "one_time_notif_req"]}
    \cup {[Message0 EXCEPT !.has_optin = TRUE, !.optin_type = ty,
                            !.sender_id = None, !.recipient_id = None,
                            !.absent = {"sender", "recipient", "message"}] :
            ty \in {None, "notification_messages"}}

AddressForms ==
    {[Message0 EXCEPT !.has_customer_information = TRUE, !.responses = rs] :
        rs \in {<<>>,
                <<[screen_id |-> "Add address", key |-> "city", value |-> "Hue"],
                  [screen_id |-> "Other", key |-> "city", value |-> "Hanoi"],
                  [screen_id |-> "Add address", key |-> "zip", value |-> ""]>>}}

MessagingItems ==
    {Message0,
     [Message0 EXCEPT !.sender_id = None, !.recipient_id = None,
                      !.text = NoneChars, !.timestamp = None,
                      !.absent = {"sender", "recipient", "message"}],
     [Message0 EXCEPT !.sender_id = None, !.absent = {"sender"}],
     [Message0 EXCEPT !.mid = "m1"]}
    \cup Optins \cup AddressForms

\* the messaging items one of whose sub-objects is null
NullItems ==
    {[Message0 EXCEPT !.sender_id = None, !.nulls = {"sender"}],
     [Message0 EXCEPT !.text = NoneChars, !.nulls = {"message"}],
     [Message0 EXCEPT !.has_optin = TRUE, !.nulls = {"optin"}],
     [Message0 EXCEPT !.has_optin = TRUE, !.optin_type = "one_time_notif_req",
                      !.sender_id = None, !.nulls = {"sender"}],
     [Message0 EXCEPT !.has_optin = TRUE, !.optin_type = "notification_messages",
                      !.recipient_id = None, !.nulls = {"recipient"}],
     [Message0 EXCEPT !.has_customer_information = TRUE,
                      !.nulls = {"messaging_customer_information"}]}

\* the messaging lists: empty, one item, two items
MessagingLists ==
    {<<>>} \cup {<<m>> : m \in MessagingItems}
           \cup {<<m, Message0>> : m \in MessagingItems}

\* a comment on post 123_456 by user 456
Change0 ==
    [field |-> "feed", item |-> "comment", verb |-> "add", from_id |-> "456",
     from_name |-> "Ann", post_id |-> Chars123_456, comment_id |-> "c1",
     message |-> <<"h", "i">>, created_time |-> "t1", parent_id |-> None,
     is_hidden |-> None, is_private |-> None, reaction_type |-> None,
     photo_id |-> None, type |-> None, absent |-> {}, nulls |-> {}]

Changes ==
    {[Change0 EXCEPT !.from_id = a] : a \in Ids}
    \cup {[Change0 EXCEPT !.item = it, !.post_id = p, !.reaction_type = "love"] :
            it \in {"reaction", "like"}, p \in PostIds}
    \cup {[Change0 EXCEPT !.item = it, !.verb = v, !.photo_id = "ph1"] :
            it \in {"status", "photo", "video"}, v \in {"add", "edited"}}
    \cup {[Change0 EXCEPT !.field = "ratings"]}

\* a change without value: every field of it reads as None
NoValue ==
    [Change0 EXCEPT !.item = None, !.verb = None, !.from_id = None,
                    !.from_name = None, !.post_id = NoneChars,
                    !.comment_id = None, !.message = NoneChars,
                    !.created_time = None, !.absent = {"value", "from"}]

\* the changes with a sub-object or a field missing
MissingChanges ==
    {[Change0 EXCEPT !.item = it, !.from_id = None, !.from_name = None,
                     !.post_id = p, !.absent = {"from"}] :
        it \in {"comment", "reaction", "like", "status", "photo"},
        p \in {NoneChars, Chars123_456}}
    \cup {NoValue}

\* the changes whose `from` or whose value is null
NullChanges ==
    {[Change0 EXCEPT !.item = it, !.from_id = None, !.from_name = None,
                     !.nulls = {"from"}] : it \in {"comment", "reaction", "photo"}}
    \cup {[NoValue EXCEPT !.field = f, !.absent = {"from"}, !.nulls = {"value"}] :
            f \in {"feed", "ratings"}}

\* the changes that follow another one in a list
SecondChanges ==
    {[Change0 EXCEPT !.from_id = "123"],
     [Change0 EXCEPT !.item = "reaction", !.reaction_type = "love"],
     [Change0 EXCEPT !.item = "video"]}

ChangesLists ==
    {<<>>} \cup {<<c>> : c \in Changes}
           \cup {<<c, d>> : c \in Changes, d \in SecondChanges}
           \cup {<<c>> : c \in MissingChanges}
           \cup {<<NoValue, d>> : d \in SecondChanges}

Entry0 ==
    [id |-> "123", has_messaging |-> FALSE, messaging |-> <<>>,
     has_changes |-> FALSE, changes |-> <<>>]

Entries ==
    {[Entry0 EXCEPT !.id = i] : i \in Ids}
    \cup {[Entry0 EXCEPT !.id = i, !.has_messaging = TRUE, !.messaging = ms] :
            i \in Ids, ms \in MessagingLists}
    \cup {[Entry0 EXCEPT !.id = i, !.has_changes = TRUE, !.changes = cs] :
            i \in Ids, cs \in ChangesLists}
    \cup {[Entry0 EXCEPT !.has_messaging = TRUE, !.messaging = ms,
                         !.has_changes = TRUE, !.changes = cs] :
            ms \in {<<>>, <<Message0>>,
                    <<[Message0 EXCEPT !.has_optin = TRUE,
                                       !.optin_type = "one_time_notif_req"]>>},
            cs \in {<<>>, <<[Change0 EXCEPT !.from_id = "123"]>>,
                    <<[Change0 EXCEPT !.item = "like"]>>}}
    \cup {[Entry0 EXCEPT !.has_messaging = TRUE, !.messaging = <<m>>] :
            m \in NullItems}
    \cup {[Entry0 EXCEPT !.has_changes = TRUE, !.changes = <<c>>] :
            c \in NullChanges}

\* the entries that follow another one in a payload
SecondEntries ==
    {[Entry0 EXCEPT !.id = "456"],
     [Entry0 EXCEPT !.has_messaging = TRUE, !.messaging = <<Message0>>],
     [Entry0 EXCEPT !.has_changes = TRUE,
                    !.changes = <<[Change0 EXCEPT !.from_id = "123"]>>],
     [Entry0 EXCEPT !.id = "456", !.has_changes = TRUE,
                    !.changes = <<[Change0 EXCEPT !.item = "reaction"]>>]}

RawPayloads ==
    {[object |-> "page", entry |-> es] :
        es \in {<<>>} \cup {<<e>> : e \in Entries}
                      \cup {<<e, f>> : e \in Entries, f \in SecondEntries}}

\* len(json.dumps(data)) for the data of an event
Sizes == {2, large_data_threshold - 1, large_data_threshold, large_data_threshold + 1}

\* the event types should_process_async is called with
CalledEventTypes ==
    {"message", "comment", "reaction", "like", "post_creation", "photo_post",
     "notification_messages", "address_form", "unknown"}
    \cup high_priority_events

\* a text of 51 characters
LongText == [i \in 1..51 |-> IF i % 2 = 0 THEN "a" ELSE "b"]

\* the data extract_essential_metadata is called with: the data of every
\* event of the classifier, with a short text, a long one and None; a
\* mapping with one field; a mapping with every field the function reads
\* and with the names of the fields it adds
MetadataData ==
    {EmptyData, [sender_id |-> "S"],
     [sender_id |-> "S", text |-> LongText, timestamp |-> "1700000000",
      post_id |-> Chars123_456, comment_id |-> "c1", reaction_type |-> "love",
      message |-> LongText, created_time |-> "t1", type |-> "status",
      photo_id |-> "ph1", source |-> "elsewhere", is_metadata_only |-> FALSE,
      full_data_available_in_db |-> FALSE, has_photo |-> FALSE]}
    \cup {handle_message([Message0 EXCEPT !.text = t], BaseStructuredData).data :
            t \in {<<"h", "i">>, LongText, NoneChars}}
    \cup {handle_notification_messages(
              [Message0 EXCEPT !.has_optin = TRUE,
                               !.optin_type = "notification_messages"],
              BaseStructuredData).data,
          handle_address_form([Message0 EXCEPT !.has_customer_information = TRUE],
                              BaseStructuredData).data,
          handle_comment(Change0, BaseStructuredData).data,
          handle_reaction([Change0 EXCEPT !.reaction_type = "love"],
                          BaseStructuredData).data,
          handle_like(Change0, BaseStructuredData).data}
    \cup {handle_post_creation([Change0 EXCEPT !.message = t],
                               BaseStructuredData).data :
            t \in {<<"h", "i">>, LongText, NoneChars}}
    \cup {handle_photo_post([Change0 EXCEPT !.message = t, !.photo_id = "ph1"],
                            BaseStructuredData).data :
            t \in {<<"h", "i">>, LongText, NoneChars}}

\* the calls: a POST of either client returning, the classifier on a raw
\* payload (and the forwarder on its result), should_process_async,
\* extract_essential_metadata
Calls ==
    [fn : {"post"}, resp : Responses]
    \cup [fn : {"extract_structured_data"}, raw_data : RawPayloads]
    \cup [fn : {"should_process_async"}, event_type : CalledEventTypes,
          size : Sizes]
    \cup [fn : {"extract_essential_metadata"}, event_type : CalledEventTypes,
          fields : MetadataData]

Pending == [stage |-> "pending"]

\* the POST returned `resp`: what forward_to_backend makes of it, and what
\* forward_data makes of it
PostReturns ==
    /\ call.fn = "post"
    /\ result = Pending
    /\ result' = [stage |-> "returned",
                  first |-> ForwardOutcome(call.resp),
                  raised |-> ForwardRaises(call.resp),
                  retry |-> forward_data(call.resp)]
    /\ UNCHANGED <<call, retryVars, orchVars>>

\* the handler classifies the body (routes.py line 55)
Classify ==
    /\ call.fn = "extract_structured_data"
    /\ result = Pending
    /\ result' = [stage |-> "classified",
                  structured_data |-> extract_structured_data(call.raw_data)]
    /\ UNCHANGED <<call, retryVars, orchVars>>

\* forward_to_backend builds its payload for the classified event, whose
\* data serialises to `size` characters (routes.py lines 70-71 and 178-182)
BuildPayload ==
    /\ result.stage = "classified"
    /\ ~result.structured_data.is_none
    /\ ~result.structured_data.raised
    /\ \E size \in Sizes :
          LET sd == result.structured_data
              data == [fields |-> sd.data, size |-> size]
          IN  result' = [stage |-> "payload", structured_data |-> sd,
                         size |-> size,
                         payload |-> Payload("doc1", sd.event_type, data)]
    /\ UNCHANGED <<call, retryVars, orchVars>>

ShouldProcessAsync ==
    /\ call.fn = "should_process_async"
    /\ result = Pending
    /\ result' = [stage |-> "returned",
                  value |-> should_process_async(call.event_type,
                                                 [fields |-> EmptyData,
                                                  size |-> call.size])]
    /\ UNCHANGED <<call, retryVars, orchVars>>

\* forward_to_backend extracts the metadata of the data (line 32)
ExtractEssentialMetadata ==
    /\ call.fn = "extract_essential_metadata"
    /\ result = Pending
    /\ result' = [stage |-> "returned",
                  metadata |-> extract_essential_metadata(
                                   call.event_type,
                                   [fields |-> call.fields, size |-> 2])]
    /\ UNCHANGED <<call, retryVars, orchVars>>

----------------------------------------------------------------------------
(* Specifications *)

\* RetryManager.__init__ (retry_manager.py lines 12-17, 104)
InitRetryManager ==
    /\ retry_queue = <<>>
    /\ processing_task = NoneTask
    /\ tasks = [t \in TaskIds |-> NoTask]
    /\ clock = 0
    /\ calls = 0
    /\ dropped = 0
    /\ items = <<>>

\* Database.__init__ (database.py lines 11-15, 211): _connection_ready is
\* what _initialize_connections found; Config as loaded
InitOrchestrator ==
    /\ req = [r \in RequestIds |-> IdleRequest]
    /\ notification_collection = <<>>
    /\ logs_collection = <<>>
    /\ mongo_up \in BOOLEAN
    /\ connection_ready = mongo_up
    /\ backend_healthy \in BOOLEAN
    /\ ENABLE_FORWARDING \in BOOLEAN
    /\ next_id = 1
    /\ forward_calls = {}
    /\ received = {}
    /\ updates = <<>>
    /\ overlapped = FALSE
    /\ store_failed = ~mongo_up

\* no function call is being looked at
NoCall == [fn |-> None]
NoResult == [stage |-> "none"]

InitNoCall ==
    /\ call = NoCall
    /\ result = NoResult

Init == InitRetryManager /\ InitOrchestrator /\ InitNoCall

\* the retry manager with its callers and its backend
NextRetry == Enqueue \/ Drain

\* the processing of inbound events, with the store and the backend
NextOrch == Process \/ StoreChanges \/ BackendChanges

\* the calls of the functions of the classifier and of the forwarder
NextCalls ==
    \/ PostReturns
    \/ Classify
    \/ BuildPayload
    \/ ShouldProcessAsync
    \/ ExtractEssentialMetadata

Next == NextRetry \/ NextOrch \/ NextCalls

Spec == Init /\ [][Next]_vars

\* the retry manager alone: the store is up, the backend answers anything
InitRetry ==
    /\ Init
    /\ mongo_up = TRUE
    /\ ENABLE_FORWARDING = TRUE
    /\ backend_healthy = FALSE

SpecRetry == InitRetry /\ [][NextRetry]_vars

SpecOrch == Init /\ [][NextOrch]_vars

\* every background task that can take a step takes it: the event loop runs
\* every task that is ready, and every store or backend call returns or
\* times out.  The environment is under no obligation.
FairSpecOrch == SpecOrch /\ \A r \in RequestIds : WF_vars(ProcessStep(r))

\* the event loop runs the drain task whenever it is ready: a created task
\* is started, the POST of forward_data returns or times out (ClientTimeout
\* at line 78), and the sleep of line 60 ends.  The callers of add_to_retry
\* are under no obligation.
FairSpecRetry ==
    /\ SpecRetry
    /\ \A t \in TaskIds :
           /\ WF_vars(DrainStart(t))
           /\ WF_vars(\E resp \in BackendResponses(backend_healthy) : DrainPostReturns(t, resp))
           /\ WF_vars(DrainWakes(t))

\* a burst of add_to_retry calls on the new retry manager
SpecFill == InitRetry /\ [][Fill]_vars

\* the retry manager at the capacity of its queue
NextCapacity == Burst \/ LateEnqueue \/ LateDrain

SpecCapacity == InitRetry /\ [][NextCapacity]_vars

\* one call of a function, on every argument of Calls
InitCalls ==
    /\ InitRetryManager
    /\ InitOrchestrator
    /\ mongo_up = TRUE
    /\ backend_healthy = TRUE
    /\ ENABLE_FORWARDING = TRUE
    /\ call \in Calls
    /\ result = Pending

SpecCalls == InitCalls /\ [][NextCalls]_vars

----------------------------------------------------------------------------
(* Claims *)

ItemIds == 1..Len(items)

\* the forward of request r was made and ended in failure
ForwardFailed(r) ==
    r \in forward_calls /\ req[r].pc = "done" /\ ~req[r].outcome.success

\* the drain tasks that exist and have not returned
LiveTasks == {t \in TaskIds : tasks[t].pc \in {"created", "posting", "sleeping"}}

\* C1: at-least-once delivery.  For every request whose forward was made: if
\* the first attempt failed and from then on the backend accepts whatever it
\* is sent, the payload is eventually accepted by the backend.
C1_AtLeastOnceDelivery ==
    \A r \in RequestIds :
        [](ForwardFailed(r) /\ backend_healthy
              => <>(r \in received \/ ~backend_healthy))

\* C2: whenever the forward of a request ended in failure, its payload was
\* handed to add_to_retry: the retry manager holds or held an entry for it.
C2_FailedForwardIsEnqueued ==
    \A r \in RequestIds :
        ForwardFailed(r) => \E u \in ItemIds : items[u].data = EventData(r)

\* C3: after 101 consecutive add_to_retry calls on an empty queue, the queue
\* holds exactly 100 entries and exactly one call was rejected.
C3_FillKeepsCapacity ==
    calls = max_queue_size + 1
        => Len(retry_queue) = max_queue_size /\ dropped = 1

\* C4: no entry gets more than max_retries attempts, and an entry whose
\* attempts are used up stays in the queue only while the drain task that
\* made the last attempt has not yet resumed: once it has, the entry is gone.
C4_AtMostMaxRetriesAttempts ==
    /\ \A u \in ItemIds : items[u].attempts <= max_retries
    /\ \A i \in 1..Len(retry_queue) :
          retry_queue[i].retry_count >= max_retries
              => \A t \in TaskIds :
                    tasks[t].pc = "posting" => tasks[t].uid # retry_queue[i].uid
    /\ \A i \in 1..Len(retry_queue) :
          items[retry_queue[i].uid].attempts = max_retries
              => \E t \in TaskIds :
                    /\ tasks[t].pc \in {"posting", "sleeping"}
                    /\ tasks[t].uid = retry_queue[i].uid

\* an entry got three attempts, all failed, and was removed as exhausted
C4_Witness ==
    \E u \in ItemIds :
        items[u].attempts = max_retries /\ items[u].fate = "exhausted"

\* C5: delivered is terminal.  An entry whose attempt succeeded is not in the
\* queue, and it is never attempted again.
C5_DeliveredIsTerminal ==
    /\ [](\A u \in ItemIds :
            items[u].fate = "delivered" => u \notin QueueUids(retry_queue))
    /\ [][\A u \in ItemIds :
            items[u].fate = "delivered"
                => items'[u].fate = "delivered"
                   /\ items'[u].attempts = items[u].attempts]_vars

\* an entry was delivered and the drain task is attempting another one
C5_Witness ==
    /\ \E u \in ItemIds : items[u].fate = "delivered"
    /\ \E t \in TaskIds : tasks[t].pc = "posting"

C7_SingleDrainTask ==
    /\ Cardinality(LiveTasks) <= 1
    /\ Cardinality({t \in TaskIds : tasks[t].pc = "posting"}) <= 1

\* an attempt is in flight with two entries queued, after an earlier entry
\* left the queue
C7_Witness ==
    /\ \E t \in TaskIds : tasks[t].pc = "posting"
    /\ \E u \in ItemIds : items[u].fate \in {"delivered", "exhausted"}
    /\ Len(retry_queue) >= 2

\* C8: the drain's lifecycle.  A queue that is not empty has a live drain
\* task, which processing_task names; a task is created only when there is
\* none; a task returns only with the queue empty.
C8_DrainLifecycle ==
    /\ [](retry_queue # <<>>
            => processing_task # NoneTask /\ processing_task \in LiveTasks)
    /\ [][\A t \in TaskIds :
            t \notin LiveTasks /\ t \in LiveTasks' => LiveTasks = {}]_vars
    /\ [][\A t \in TaskIds :
            t \in LiveTasks /\ t \notin LiveTasks' => retry_queue' = <<>>]_vars

\* a new drain task was created by an enqueue after an earlier one returned
C8_Witness ==
    /\ \E t \in TaskIds : tasks[t].pc = "created"
    /\ \E u \in ItemIds : items[u].fate \in {"delivered", "exhausted"}
    /\ Len(retry_queue) = 1

\* the requests that carried token k and whose background task has returned
DoneWithToken(k) ==
    {r \in RequestIds :
        /\ req[r].pc = "done"
        /\ req[r].event_type = "notification_messages"
        /\ req[r].token = k}

\* the event documents that carry token k
EventDocsWithToken(k) ==
    {i \in 1..Len(notification_collection) :
        /\ notification_collection[i].type = "fb_event_in"
        /\ notification_collection[i].token = k}

\* the update changed the status field of one document and nothing else
StatusOnly(u) ==
    /\ Len(u.after) = Len(u.before)
    /\ \A i \in 1..Len(u.before) :
          /\ u.after[i] = [u.before[i] EXCEPT !.status = u.after[i].status]
          /\ u.before[i].id # u.id => u.after[i] = u.before[i]

\* C9: idempotency of token-bearing events.  When events with the same
\* non-empty token were processed one after the other with the store
\* answering every call, there is exactly one event document with the token,
\* every submission after the first made exactly one update, of the status
\* of that document alone, and none of them was forwarded.
C9_TokenIdempotency ==
    \A k \in Tokens \ {None} :
        (/\ ~overlapped
         /\ ~store_failed
         /\ \A r \in RequestIds : ~Active(req[r])
         /\ DoneWithToken(k) # {})
        => /\ Cardinality(EventDocsWithToken(k)) = 1
           /\ Cardinality({i \in 1..Len(updates) : updates[i].by \in DoneWithToken(k)})
                 = Cardinality(DoneWithToken(k)) - 1
           /\ \A i \in 1..Len(updates) :
                 updates[i].by \in DoneWithToken(k)
                    => /\ StatusOnly(updates[i])
                       /\ \A d \in EventDocsWithToken(k) :
                             notification_collection[d].id = updates[i].id
           /\ DoneWithToken(k) \cap forward_calls = {}

\* the same token was submitted twice, one after the other, with the store up
C9_Witness ==
    /\ ~overlapped
    /\ ~store_failed
    /\ Cardinality(DoneWithToken("tokA")) = 2
    /\ Len(updates) = 1
    /\ updates[1].after # updates[1].before

\* C10: forward_to_backend is never called for a notification_messages
\* event.
C10_NotificationsNeverForwarded ==
    \A r \in forward_calls : req[r].event_type # "notification_messages"

\* a notification_messages event went all the way through the inserts with
\* forwarding enabled, once with the store failing
C10_Witness ==
    /\ ENABLE_FORWARDING
    /\ \E r \in RequestIds :
          /\ req[r].pc = "done"
          /\ req[r].event_type = "notification_messages"
          /\ req[r].document_id = ErrorInsert
    /\ \E r \in RequestIds :
          /\ req[r].pc = "done"
          /\ req[r].event_type = "notification_messages"
          /\ req[r].document_id > 0

\* the POST of the call has returned a response with a status code
StatusReturned ==
    call.fn = "post" /\ result.stage = "returned" /\ call.resp.kind = "status"

\* C11: forward_to_backend classifies a completed POST by its status code
\* alone, whatever the body: 200 is a success handled synchronously, 201 and
\* 202 are successes handled asynchronously, every other status is a failure
\* that carries the status code.
C11_StatusCodeAlone ==
    StatusReturned
    => /\ call.resp.status = 200
            => result.first.success /\ result.first.sync = "sync"
       /\ call.resp.status \in {201, 202}
            => result.first.success /\ result.first.sync = "async"
       /\ call.resp.status \notin {200, 201, 202}
            => /\ ~result.first.success
               /\ result.first.status_code = call.resp.status

\* C12: a response whose body is empty or JSON is a success exactly when its
\* status is 200, 201, 202 or 204, for forward_to_backend and for
\* forward_data alike.
C12_SameSuccessStatuses ==
    (StatusReturned /\ call.resp.body \in {"empty", "json"})
    => /\ result.first.success = (call.resp.status \in {200, 201, 202, 204})
       /\ result.retry = (call.resp.status \in {200, 201, 202, 204})

\* C13: whenever the forward of a request ended in failure and the store
\* answered every call, the logs collection holds an error log for the
\* request's document tagged 'pending_retry'.
C13_FailedForwardIsLogged ==
    \A r \in RequestIds :
        ForwardFailed(r) /\ ~store_failed
        => \E i \in 1..Len(logs_collection) :
              /\ logs_collection[i].type = "fb_event_forward_error"
              /\ logs_collection[i].related = req[r].document_id
              /\ logs_collection[i].tag = "pending_retry"

\* C14: every response the handler gives has status code 200, a request
\* whose handling is over has got its response, and no exception leaves the
\* handler or the background task.
C14_AlwaysAnswers200 ==
    \A r \in RequestIds :
        /\ req[r].pc # "raised"
        /\ req[r].response # NoResponse => req[r].response.status_code = 200
        /\ req[r].pc = "done" => req[r].response # NoResponse

\* C15: for every accepted page event the response is the one built from the
\* classification when the task was scheduled: it is there in every state of
\* the background task, whatever the store and the backend do, and a
\* response once given never changes.
C15_ResponseDecoupled ==
    /\ [](\A r \in RequestIds :
            req[r].body = "page_event"
            => req[r].response =
                  [status_code |-> 200, status |-> "success",
                   message |-> "Webhook received, processing in background",
                   event_type |-> req[r].event_type])
    /\ [][\A r \in RequestIds :
            req[r].response # NoResponse => req'[r].response = req[r].response]_vars

\* the forward of a page event is in flight after a store call failed, and
\* the response was given
C15_Witness ==
    \E r \in RequestIds :
        /\ req[r].body = "page_event"
        /\ req[r].pc = "post"
        /\ store_failed
        /\ req[r].response.status = "success"

\* lines 120-137: a handler is called for the change
MatchesRule(value) ==
    /\ value.field = "feed"
    /\ \/ value.item \in {"comment", "reaction", "like"}
       \/ value.item \in {"status", "photo"} /\ value.verb = "add"

\* lines 64-75: the loop over the entries ends at this entry
Decides(entry) ==
    \/ entry.has_changes
    \/ entry.has_messaging
       /\ ~parse_messaging_event(entry, BaseStructuredData).is_none

\* the classifier has returned for the raw payload of the call
Classified == call.fn = "extract_structured_data" /\ result.stage = "classified"

\* the change is a feed comment whose author is the entry itself
IsSelfComment(value, entry) ==
    value.field = "feed" /\ value.item = "comment" /\ value.from_id = entry.id

\* C16 as stated: for every raw payload with a changes entry that holds a
\* feed comment whose author id is the id of the entry,
\* extract_structured_data returns None.
C16_SelfCommentIsSkipped ==
    (/\ Classified
     /\ \E e \in 1..Len(call.raw_data.entry) :
           /\ call.raw_data.entry[e].has_changes
           /\ \E c \in 1..Len(call.raw_data.entry[e].changes) :
                 IsSelfComment(call.raw_data.entry[e].changes[c],
                               call.raw_data.entry[e]))
    => result.structured_data.is_none

\* entry e is the first that ends the loop, no messaging item of it
\* classifies, and the first change of it a handler is called for is a
\* comment by the entry itself
SelfCommentDecides(entries, e) ==
    /\ \A d \in 1..(e - 1) : ~Decides(entries[d])
    /\ entries[e].has_changes
    /\ ~(entries[e].has_messaging
         /\ ~parse_messaging_event(entries[e], BaseStructuredData).is_none)
    /\ \E c \in 1..Len(entries[e].changes) :
          /\ IsSelfComment(entries[e].changes[c], entries[e])
          /\ \A b \in 1..(c - 1) : ~MatchesRule(entries[e].changes[b])

\* C16, amended: extract_structured_data returns None for every raw payload
\* in which the classification gets to a feed comment written by its own
\* entry: no earlier entry ends the loop, no messaging item of the entry
\* classifies, and no earlier change of the entry matches a rule.
C16_DecidingSelfCommentIsSkipped ==
    (/\ Classified
     /\ \E e \in 1..Len(call.raw_data.entry) :
           SelfCommentDecides(call.raw_data.entry, e))
    => result.structured_data.is_none

\* the self comment is in the second entry, behind an entry whose optin is
\* of another type, and the result is None
C16_Witness ==
    /\ Classified
    /\ Len(call.raw_data.entry) = 2
    /\ call.raw_data.entry[1].messaging # <<>>
    /\ SelfCommentDecides(call.raw_data.entry, 2)
    /\ result.structured_data.is_none

\* the first messaging item of the first entry that ends the loop
DecidingItem(raw_data) ==
    LET e == CHOOSE k \in 1..Len(raw_data.entry) :
                 /\ Decides(raw_data.entry[k])
                 /\ \A d \in 1..(k - 1) : ~Decides(raw_data.entry[d])
    IN  raw_data.entry[e].messaging[1]

\* the classifier has returned a notification_messages event
ClassifiedAsNotification ==
    /\ Classified
    /\ ~result.structured_data.is_none
    /\ result.structured_data.event_type = "notification_messages"

\* C17 as stated: the derived status is AVAILABLE when the incoming status
\* is absent or RESUME_NOTIFICATIONS, and NOT_AVAILABLE for every other
\* value that is present.
C17_StatusToggle ==
    ClassifiedAsNotification
    => result.structured_data.data.notification_messages_status =
          IF DecidingItem(call.raw_data).status \in {None, "RESUME_NOTIFICATIONS"}
          THEN "AVAILABLE" ELSE "NOT_AVAILABLE"

\* C17, amended: the derived status is AVAILABLE when the incoming status is
\* absent, null, the empty string or RESUME_NOTIFICATIONS, and NOT_AVAILABLE
\* for every other value.
C17_StatusToggleFalsy ==
    ClassifiedAsNotification
    => result.structured_data.data.notification_messages_status =
          IF DecidingItem(call.raw_data).status \in {None, "", "RESUME_NOTIFICATIONS"}
          THEN "AVAILABLE" ELSE "NOT_AVAILABLE"

\* an optin with an empty incoming status was classified as AVAILABLE
C17_Witness ==
    /\ ClassifiedAsNotification
    /\ DecidingItem(call.raw_data).status = ""
    /\ result.structured_data.data.notification_messages_status = "AVAILABLE"

\* C18: should_process_async is true exactly for the event types comment,
\* post_creation and photo_post, for the high-priority event types, and for
\* data whose serialisation is longer than 10,000; the processing_preference
\* of the payload follows it.
C18_AsyncExactlyWhen ==
    /\ (call.fn = "should_process_async" /\ result.stage = "returned")
       => result.value =
             (\/ call.event_type \in {"comment", "post_creation", "photo_post"}
              \/ call.event_type \in {"order_created", "payment_received"}
              \/ call.size > 10000)
    /\ result.stage = "payload"
       => (result.payload.processing_preference = "async") =
             (\/ result.structured_data.event_type
                    \in {"comment", "post_creation", "photo_post"}
              \/ result.size > 10000)

\* a message whose data is one character over the threshold is asynchronous
C18_Witness ==
    /\ call.fn = "should_process_async"
    /\ result.stage = "returned"
    /\ call.event_type = "message"
    /\ call.size = 10001
    /\ result.value

\* C19: for reaction and like events page_id is the part of post_id before
\* its first underscore and post_number is all that follows it; both are the
\* empty string when post_id is absent.
C19_SplitOnFirstUnderscore ==
    (/\ Classified
     /\ ~result.structured_data.is_none
     /\ result.structured_data.event_type \in {"reaction", "like"})
    => LET data == result.structured_data.data
           underscores == {i \in 1..Len(data.post_id) : data.post_id[i] = "_"}
       IN  IF data.post_id = NoneChars
           THEN data.page_id = <<>> /\ data.post_number = <<>>
           ELSE \A i \in underscores :
                   (\A j \in underscores : i <= j)
                   => /\ data.page_id = SubSeq(data.post_id, 1, i - 1)
                      /\ data.post_number =
                            SubSeq(data.post_id, i + 1, Len(data.post_id))

\* C20: the payload built for a reaction on post "123_456" with asynchronous
\* dispatch carries metadata with page_id "123" and post_number "456".
C20_ReactionMetadataHasPostParts ==
    (/\ result.stage = "payload"
     /\ result.structured_data.event_type = "reaction"
     /\ result.structured_data.data.post_id = Chars123_456
     /\ result.payload.processing_preference = "async")
    => /\ "page_id" \in DOMAIN result.payload.data
       /\ "post_number" \in DOMAIN result.payload.data
       /\ result.payload.data.page_id = Chars123
       /\ result.payload.data.post_number = Chars456

\* the classifier has returned an event: not None, and no exception
ReturnedEvent ==
    Classified /\ ~result.structured_data.is_none /\ ~result.structured_data.raised

\* the payload of the call has one entry, whose messaging list is one plain
\* message from "S" to "R" with text "hi", no mid, timestamp 1700000000
IsRoundTripPayload(raw_data) ==
    /\ Len(raw_data.entry) = 1
    /\ raw_data.entry[1].has_messaging
    /\ raw_data.entry[1].messaging = <<Message0>>

\* C21: classifying a payload whose single entry has one messaging item with
\* sender "S", recipient "R", text "hi", no mid and timestamp 1700000000
\* yields event_type message and exactly the data {sender_id: "S",
\* recipient_id: "R", message_id: None, text: "hi", timestamp: 1700000000};
\* and the data of every message event is exactly these five fields, copied
\* from the item that was classified.
C21_MessageDataIsCopied ==
    /\ (Classified /\ IsRoundTripPayload(call.raw_data))
       => /\ ReturnedEvent
          /\ result.structured_data.event_type = "message"
          /\ result.structured_data.data =
                [sender_id |-> "S", recipient_id |-> "R", message_id |-> None,
                 text |-> <<"h", "i">>, timestamp |-> "1700000000"]
    /\ (ReturnedEvent /\ result.structured_data.event_type = "message")
       => LET messaging == DecidingItem(call.raw_data)
          IN  result.structured_data.data =
                 [sender_id |-> messaging.sender_id,
                  recipient_id |-> messaging.recipient_id,
                  message_id |-> messaging.mid,
                  text |-> messaging.text,
                  timestamp |-> messaging.timestamp]

\* the message from "S" to "R" was classified, and its text was copied
C21_Witness ==
    /\ ReturnedEvent
    /\ IsRoundTripPayload(call.raw_data)
    /\ result.structured_data.event_type = "message"
    /\ result.structured_data.data.text = <<"h", "i">>

\* no sub-object of the payload is null: sub-objects and fields are there or
\* missing
NoNulls(raw_data) ==
    \A e \in 1..Len(raw_data.entry) :
        /\ \A i \in 1..Len(raw_data.entry[e].messaging) :
              raw_data.entry[e].messaging[i].nulls = {}
        /\ \A c \in 1..Len(raw_data.entry[e].changes) :
              raw_data.entry[e].changes[c].nulls = {}

\* the first change a handler is called for, in the first entry that ends
\* the loop
DecidingChange(raw_data) ==
    LET e == CHOOSE k \in 1..Len(raw_data.entry) :
                 /\ Decides(raw_data.entry[k])
                 /\ \A d \in 1..(k - 1) : ~Decides(raw_data.entry[d])
        changes == raw_data.entry[e].changes
        c == CHOOSE j \in 1..Len(changes) :
                 /\ MatchesRule(changes[j])
                 /\ \A b \in 1..(j - 1) : ~MatchesRule(changes[b])
    IN  changes[c]

MessagingEventTypes == {"message", "notification_messages", "address_form"}

ChangesEventTypes == {"comment", "reaction", "like", "post_creation", "photo_post"}

\* what C22 says of the fields other than notification_messages_status: the
\* data fields that are copies of a missing sub-object or of a missing field
\* are None
MissingCopiesAreNone(raw_data, structured_data) ==
    LET data == structured_data.data
    IN  /\ structured_data.event_type \in MessagingEventTypes
           => LET messaging == DecidingItem(raw_data)
              IN  /\ "sender" \in messaging.absent => data.sender_id = None
                  /\ "recipient" \in messaging.absent => data.recipient_id = None
        /\ structured_data.event_type = "message"
           => LET messaging == DecidingItem(raw_data)
              IN  "message" \in messaging.absent
                  => data.message_id = None /\ data.text = NoneChars
        /\ structured_data.event_type = "notification_messages"
           => LET messaging == DecidingItem(raw_data)
              IN  /\ messaging.token = None
                     => data.notification_messages_token = None
                  /\ messaging.token_expiry_timestamp = None
                     => data.token_expiry_timestamp = None
                  /\ messaging.user_token_status = None
                     => data.user_token_status = None
                  /\ messaging.timezone = None
                     => data.notification_messages_timezone = None
                  /\ messaging.title = None => data.title = None
        /\ structured_data.event_type \in ChangesEventTypes
           => LET value == DecidingChange(raw_data)
              IN  /\ "from" \in value.absent
                     => data.sender_id = None /\ data.sender_name = None
                  /\ value.post_id = NoneChars => data.post_id = NoneChars

MetadataReturned ==
    call.fn = "extract_essential_metadata" /\ result.stage = "returned"

\* the event types extract_essential_metadata has a branch for
KnownMetadataTypes ==
    {"message", "comment", "reaction", "like", "post_creation", "photo_post"}

BaseFields == {"source", "is_metadata_only", "full_data_available_in_db"}

\* the metadata has the three base fields, and no slice of it failed
HasBaseFields(metadata) ==
    /\ BaseFields \subseteq DOMAIN metadata
    /\ metadata.is_metadata_only = TRUE
    /\ metadata.full_data_available_in_db = TRUE
    /\ \A k \in {"message_preview", "post_preview"} \cap DOMAIN metadata :
          metadata[k] # TypeError

\* C23: extract_essential_metadata returns for every event type and every
\* data mapping; its result always has source, is_metadata_only = true and
\* full_data_available_in_db = true; for an event type it has no branch for
\* (unknown, notification_messages, address_form and the others) the result
\* has exactly these three fields, whatever the data.  The same holds of the
\* metadata in the payloads that are built.
C23_MetadataBaseFields ==
    /\ MetadataReturned
       => /\ HasBaseFields(result.metadata)
          /\ call.event_type \notin KnownMetadataTypes
             => DOMAIN result.metadata = BaseFields
    /\ (result.stage = "payload" /\ result.payload.processing_preference = "async")
       => /\ HasBaseFields(result.payload.data)
          /\ result.structured_data.event_type \notin KnownMetadataTypes
             => DOMAIN result.payload.data = BaseFields

\* the metadata of an address_form event was extracted from a data mapping
\* that has a sender_id and fields named like the base fields
C23_Witness ==
    /\ MetadataReturned
    /\ call.event_type = "address_form"
    /\ "sender_id" \in DOMAIN call.fields
    /\ "is_metadata_only" \in DOMAIN call.fields
    /\ DOMAIN result.metadata = BaseFields

\* the documents of both collections
Documents(notifications, logs) ==
    {notifications[i] : i \in 1..Len(notifications)}
    \cup {logs[i] : i \in 1..Len(logs)}

\* insert_wh is about to return to the task of r: the task is suspended in
\* insert_one or in the sleep of _ensure_connection
InInsert(rq) == rq.pc \in {"insert_one", "reconnect_sleep"}

\* C24: the steps of one background task are strictly sequential.  The
\* confirmation insert starts in the step in which the event insert returns
\* and not otherwise; forward_to_backend is called in the step in which the
\* confirmation insert returns and not otherwise.  document_id is what the
\* event insert returned (the id of the event document when one was
\* written, an error value otherwise) and does not change afterwards; the
\* confirmation that is written has it as related_document_id, and
\* forward_to_backend is called with it.
C24_StrictlySequential ==
    /\ [](\A r \in RequestIds :
            /\ req[r].stage \in {"confirm", "forward"} => req[r].document_id # 0
            /\ req[r].stage = "forward"
               => /\ r \in forward_calls
                  /\ req[r].forwarded = req[r].document_id
            /\ req[r].stage \in {"event", "confirm"} => r \notin forward_calls)
    /\ [][\A r \in RequestIds :
            LET new == Documents(notification_collection', logs_collection')
                           \ Documents(notification_collection, logs_collection)
            IN  /\ (req[r].stage # "confirm" /\ req'[r].stage = "confirm")
                   => /\ req[r].stage = "event" /\ InInsert(req[r])
                      /\ \A doc \in new :
                            /\ doc.type = "fb_event_in"
                            /\ req'[r].document_id = doc.id
                      /\ new = {}
                         => req'[r].document_id \in {ErrorNoConnection, ErrorInsert}
                /\ (req[r].stage # "forward" /\ req'[r].stage = "forward")
                   => req[r].stage = "confirm" /\ InInsert(req[r])
                /\ req[r].stage \in {"confirm", "forward"}
                   => req'[r].document_id = req[r].document_id
                /\ (req[r].stage = "confirm" /\ req'[r] # req[r])
                   => \A doc \in new :
                         /\ doc.type = "fb_event_confirm"
                         /\ doc.related = req[r].document_id]_vars

\* the forward of a request is in flight with the id of its event document;
\* the confirmation related to that document is in the store
C24_Witness ==
    \E r \in RequestIds :
        /\ req[r].pc = "post"
        /\ req[r].forwarded > 0
        /\ req[r].forwarded = req[r].document_id
        /\ \E doc \in Documents(notification_collection, logs_collection) :
              doc.type = "fb_event_in" /\ doc.id = req[r].document_id
        /\ \E doc \in Documents(notification_collection, logs_collection) :
              doc.type = "fb_event_confirm" /\ doc.related = req[r].document_id

\* C25: a request whose classification is None is answered with status
\* "skipped" and is over at once: no background task exists for it at any
\* time, no forward is made for it, and the one step that handles it leaves
\* both collections of the store and the backend as they are.
C25_SkippedStops ==
    /\ [](\A r \in RequestIds :
            req[r].body = "page_skipped"
            => /\ req[r].response.status_code = 200
               /\ req[r].response.status = "skipped"
               /\ req[r].pc = "done"
               /\ req[r].stage = "none"
               /\ req[r].document_id = 0
               /\ r \notin forward_calls
               /\ r \notin received)
    /\ [][\A r \in RequestIds :
            (req'[r].body = "page_skipped" /\ req'[r] # req[r])
            => UNCHANGED <<notification_collection, logs_collection, next_id,
                           forward_calls, received, updates>>]_vars

\* a request was skipped, and the store and the backend have got the event
\* of another request
C25_Witness ==
    \E r, q \in RequestIds :
        /\ req[r].body = "page_skipped"
        /\ req[r].response.status = "skipped"
        /\ q \in received
        /\ Len(logs_collection) = 2

\* the event type the first messaging item stands for, by the three rules
\* of lines 91-100 as C26 reads them
EventTypeOfItem(messaging) ==
    IF messaging.has_optin /\ messaging.optin_type = "notification_messages"
    THEN "notification_messages"
    ELSE IF messaging.has_customer_information
    THEN "address_form"
    ELSE "message"

\* C26: when the first entry of the payload has a non-empty messaging list
\* (and no sub-object of the payload is null), the classifier returns the
\* event of the first messaging item: notification_messages for an optin of
\* type notification_messages, address_form for an item with
\* messaging_customer_information, message for every other item, an optin of
\* another type included.
C26_FirstItemDecides ==
    (/\ Classified
     /\ NoNulls(call.raw_data)
     /\ call.raw_data.entry # <<>>
     /\ call.raw_data.entry[1].has_messaging
     /\ call.raw_data.entry[1].messaging # <<>>)
    => /\ ReturnedEvent
       /\ result.structured_data.event_type =
             EventTypeOfItem(call.raw_data.entry[1].messaging[1])

\* lines 124-137: the event type of the rule the change matches
RuleEventType(value) ==
    IF value.item = "comment" THEN "comment"
    ELSE IF value.item = "reaction" THEN "reaction"
    ELSE IF value.item = "like" THEN "like"
    ELSE IF value.item = "status" THEN "post_creation"
    ELSE "photo_post"

\* the classifier has returned for a payload without null sub-objects in
\* which entry e is the first that ends the loop, by its changes list: it
\* has one, and no messaging item of it classifies
ChangesDecideAt(e) ==
    /\ Classified
    /\ NoNulls(call.raw_data)
    /\ e \in 1..Len(call.raw_data.entry)
    /\ \A d \in 1..(e - 1) : ~Decides(call.raw_data.entry[d])
    /\ call.raw_data.entry[e].has_changes
    /\ ~(call.raw_data.entry[e].has_messaging
         /\ ~parse_messaging_event(call.raw_data.entry[e],
                                   BaseStructuredData).is_none)

\* the indices of the changes of the entry that match a rule
Matching(entry) ==
    {j \in 1..Len(entry.changes) : MatchesRule(entry.changes[j])}

\* the first change of the entry that matches a rule
FirstMatching(entry) ==
    entry.changes[CHOOSE j \in Matching(entry) : \A k \in Matching(entry) : j <= k]

\* C27 as stated: in an entry with a changes list and no classifying
\* messaging item, the first change that matches a rule gives the event
\* (comment, reaction, like, post_creation for status with verb add,
\* photo_post for photo with verb add), the changes before it being skipped;
\* when no change of the entry matches, the result is None, whatever
\* entries follow.
C27_FirstMatchingChangeDecides ==
    \A e \in 1..2 :
        ChangesDecideAt(e)
        => LET entry == call.raw_data.entry[e]
           IN  IF Matching(entry) = {}
               THEN result.structured_data.is_none
               ELSE /\ ReturnedEvent
                    /\ result.structured_data.event_type =
                          RuleEventType(FirstMatching(entry))
                    /\ result.structured_data.data.sender_id =
                          FirstMatching(entry).from_id

\* C27, amended: as stated, except that a comment whose author id is the id
\* of its entry, when it is the first change that matches, gives None and
\* not a comment event.
C27_FirstMatchingChangeDecidesOrSkips ==
    \A e \in 1..2 :
        ChangesDecideAt(e)
        => LET entry == call.raw_data.entry[e]
           IN  IF Matching(entry) = {}
               THEN result.structured_data.is_none
               ELSE IF IsSelfComment(FirstMatching(entry), entry)
               THEN result.structured_data.is_none
               ELSE /\ ReturnedEvent
                    /\ result.structured_data.event_type =
                          RuleEventType(FirstMatching(entry))
                    /\ result.structured_data.data.sender_id =
                          FirstMatching(entry).from_id

\* the first change of the entry matches no rule and the second one is a
\* reaction, which is the event returned
C27_Witness ==
    /\ ChangesDecideAt(1)
    /\ Len(call.raw_data.entry[1].changes) = 2
    /\ ~MatchesRule(call.raw_data.entry[1].changes[1])
    /\ call.raw_data.entry[1].changes[2].item = "reaction"
    /\ ReturnedEvent
    /\ result.structured_data.event_type = "reaction"

\* the data fields of each event type: the keys of the dictionary its
\* handler builds
DataFields(event_type) ==
    IF event_type = "message"
    THEN {"sender_id", "recipient_id", "message_id", "text", "timestamp"}
    ELSE IF event_type = "comment"
    THEN {"sender_id", "sender_name", "post_id", "comment_id", "message",
          "created_time", "parent_id", "is_hidden", "is_private"}
    ELSE IF event_type = "reaction"
    THEN {"sender_id", "sender_name", "post_id", "reaction_type", "created_time",
          "page_id", "post_number"}
    ELSE IF event_type = "like"
    THEN {"sender_id", "sender_name", "post_id", "created_time", "page_id",
          "post_number"}
    ELSE IF event_type = "post_creation"
    THEN {"sender_id", "sender_name", "post_id", "message", "created_time", "type"}
    ELSE IF event_type = "photo_post"
    THEN {"sender_id", "sender_name", "post_id", "message", "created_time",
          "photo_id", "type"}
    ELSE IF event_type = "notification_messages"
    THEN {"sender_id", "recipient_id", "notification_messages_token",
          "token_expiry_timestamp", "user_token_status",
          "notification_messages_timezone", "title",
          "notification_messages_status"}
    ELSE IF event_type = "address_form"
    THEN {"sender_id", "recipient_id", "timestamp", "address"}
    ELSE {}

\* C28: every event extract_structured_data returns has one of the nine
\* event types and a data mapping with exactly the fields of that type;
\* the data of an unknown event is the empty mapping, whatever entries were
\* visited before it was returned.
C28_DataShapeMatchesEventType ==
    ReturnedEvent
    => /\ result.structured_data.event_type
             \in MessagingEventTypes \cup ChangesEventTypes \cup {"unknown"}
       /\ DOMAIN result.structured_data.data =
             DataFields(result.structured_data.event_type)
       /\ result.structured_data.event_type = "unknown"
          => result.structured_data.data = EmptyData

\* the unknown event was returned after an entry whose first messaging item
\* had been given to a handler
C28_Witness ==
    /\ ReturnedEvent
    /\ result.structured_data.event_type = "unknown"
    /\ result.structured_data.data = EmptyData
    /\ Len(call.raw_data.entry) = 2
    /\ call.raw_data.entry[1].messaging # <<>>

\* the metadata has the field `key` with the value the data has for it
Carries(metadata, fields, key) ==
    key \in DOMAIN metadata /\ metadata[key] = fields[key]

\* what C29 says of the metadata of an event of type post_creation or
\* photo_post whose data is `fields`: the type is looked for under the name
\* the code uses for it (post_type) and under its own
IsPostMetadata(event_type, fields, metadata) ==
    /\ Carries(metadata, fields, "sender_id")
    /\ Carries(metadata, fields, "post_id")
    /\ Carries(metadata, fields, "created_time")
    /\ IsStr(fields.message)
       => /\ "post_preview" \in DOMAIN metadata
          /\ Len(metadata.post_preview) <= 50
          /\ Len(metadata.post_preview) = 50 \/ metadata.post_preview = fields.message
          /\ \A i \in 1..Len(metadata.post_preview) :
                metadata.post_preview[i] = fields.message[i]
    /\ \/ "post_type" \in DOMAIN metadata /\ metadata.post_type = fields.type
       \/ Carries(metadata, fields, "type")
    /\ event_type = "photo_post"
       => /\ Carries(metadata, fields, "photo_id")
          /\ "has_photo" \in DOMAIN metadata
          /\ metadata.has_photo = TRUE

\* C29: the metadata extracted from the data of a post_creation or
\* photo_post event has sender_id, post_id, created_time and the type of
\* the data, and a preview that is the first 50 characters of the message;
\* for photo_post it has photo_id and has_photo = true too.  This holds of
\* the metadata extract_essential_metadata returns and of the metadata in
\* the payloads that are built.
C29_PostMetadata ==
    /\ (/\ MetadataReturned
        /\ call.event_type \in {"post_creation", "photo_post"}
        /\ DOMAIN call.fields = DataFields(call.event_type))
       => IsPostMetadata(call.event_type, call.fields, result.metadata)
    /\ (/\ result.stage = "payload"
        /\ result.structured_data.event_type \in {"post_creation", "photo_post"})
       => IsPostMetadata(result.structured_data.event_type,
                         result.structured_data.data, result.payload.data)

\* C30: in every payload that is built, data is the extracted metadata
\* exactly when should_process_async is true of the event type and the
\* data, and the full data of the event exactly when it is false;
\* processing_preference is "async" in the first case and "sync" in the
\* second, so that it is "async" exactly when data is metadata.
C30_PayloadFollowsMode ==
    result.stage = "payload"
    => LET sd == result.structured_data
           data == [fields |-> sd.data, size |-> result.size]
           is_async_event == should_process_async(sd.event_type, data)
           payload == result.payload
       IN  /\ (payload.data = extract_essential_metadata(sd.event_type, data))
                 = is_async_event
           /\ (payload.data = sd.data) = ~is_async_event
           /\ (payload.processing_preference = "async") = is_async_event
           /\ (payload.processing_preference = "sync") = ~is_async_event
           /\ (payload.processing_preference = "async")
                 = ("is_metadata_only" \in DOMAIN payload.data)
           /\ payload.event_type = sd.event_type

\* a message whose data is over the threshold goes out as metadata, marked
\* async
C30_Witness ==
    /\ result.stage = "payload"
    /\ result.structured_data.event_type = "message"
    /\ result.size = large_data_threshold + 1
    /\ result.payload.processing_preference = "async"
    /\ "message_preview" \in DOMAIN result.payload.data

\* C31: every delivery attempt yields an outcome.  Whatever the POST does (a
\* response of any status with any body, a connect error, a timeout, another
\* exception), forward_to_backend does not raise and returns a mapping whose
\* success field is a boolean, true only for a status the code takes for a
\* success; forward_data returns a boolean.
C31_EveryAttemptHasOutcome ==
    (call.fn = "post" /\ result.stage = "returned")
    => /\ ~result.raised
       /\ "success" \in DOMAIN result.first
       /\ result.first.success \in BOOLEAN
       /\ result.first.success
          => call.resp.kind = "status" /\ call.resp.status \in {200, 201, 202}
       /\ result.retry \in BOOLEAN

\* the backend answered 200 with a body that is not JSON: response.json()
\* raised inside forward_to_backend, which returned a failure
C31_Witness ==
    /\ call.fn = "post"
    /\ result.stage = "returned"
    /\ call.resp.status = 200
    /\ call.resp.body = "text"
    /\ ~result.raised
    /\ ~result.first.success

\* the updates made by the requests that carried token k
UpdatesWithToken(k) ==
    {i \in 1..Len(updates) : updates[i].by \in DoneWithToken(k)}

\* C32: the duplicate check can race.  Two requests with the same token that
\* are processed at the same time can both look the token up before either
\* has inserted, and then each inserts its own event document: two
\* documents carry the token and no update was made.  With the store
\* answering every call, every request with the token either made the one
\* update or left one event document, and two documents with one token
\* come from overlapping requests only.
C32_DedupCanRace ==
    \A k \in Tokens \ {None} :
        (~store_failed /\ \A r \in RequestIds : ~Active(req[r]))
        => /\ Cardinality(EventDocsWithToken(k))
                 + Cardinality(UpdatesWithToken(k))
                 = Cardinality(DoneWithToken(k))
           /\ Cardinality(EventDocsWithToken(k)) > 1 => overlapped

\* both requests carried tokA, both are done, the store answered every
\* call: there are two event documents with tokA and no update
C32_Witness ==
    /\ ~store_failed
    /\ overlapped
    /\ DoneWithToken("tokA") = RequestIds
    /\ \A r \in RequestIds : req[r].existing = 0 /\ req[r].document_id > 0
    /\ Cardinality(EventDocsWithToken("tokA")) = 2
    /\ updates = <<>>

\* C33: in every reachable state the retry queue holds at most
\* max_queue_size entries, however the add_to_retry calls and the steps of
\* the drain task interleave.
C33_QueueWithinCapacity == Len(retry_queue) <= max_queue_size

\* the queue is full again after the drain task had removed an entry, a
\* call was rejected, and the drain task is in an attempt
C33_Witness ==
    /\ Len(retry_queue) = max_queue_size
    /\ dropped > 0
    /\ Left > 0
    /\ \E t \in TaskIds : tasks[t].pc = "posting"

\* C34: every add_to_retry call that is not rejected for capacity lengthens
\* the queue by exactly one entry and leaves every entry already queued in
\* the queue with its payload and its retry count.
C34_AcceptedAddIsNewEntry ==
    [][(calls' = calls + 1 /\ dropped' = dropped)
       => /\ Len(retry_queue') = Len(retry_queue) + 1
          /\ \A i \in 1..Len(retry_queue) :
                 \E j \in 1..Len(retry_queue') :
                     /\ retry_queue'[j].uid = retry_queue[i].uid
                     /\ retry_queue'[j].data = retry_queue[i].data
                     /\ retry_queue'[j].retry_count = retry_queue[i].retry_count]_vars

\* the queue is empty and no drain task is left running
Drained ==
    /\ retry_queue = <<>>
    /\ \A t \in TaskIds : tasks[t].pc \in {"none", "done"}

\* C35: once no further items are enqueued, the drain task terminates with
\* an empty queue, whatever the backend answers, and every accepted item has
\* left the queue as delivered or as exhausted after at most max_retries
\* attempts.
C35_DrainTerminates ==
    <>[](/\ Drained
         /\ \A u \in ItemIds :
                /\ items[u].fate \in {"delivered", "exhausted"}
                /\ items[u].attempts <= max_retries)

\* C36: every forward carries the document_id of an event record that is in
\* the store; when the insert of the event failed, no forward is made for
\* it.
C36_ForwardedIdIsPersisted ==
    \A r \in forward_calls :
        \E i \in 1..Len(logs_collection) :
            /\ logs_collection[i].id = req[r].forwarded
            /\ logs_collection[i].type = "fb_event_in"

\* C37: when the dedup check found a record with the event's token, the
\* processing of that event inserts no document and makes no forward, also
\* when the status update on the record fails.  A positive document_id is
\* the id of the event document the task inserted.
C37_DuplicateInsertsNothing ==
    \A r \in RequestIds :
        req[r].existing # 0
        => /\ req[r].document_id <= 0
           /\ r \notin forward_calls

====
